---------------------------- MODULE Spec2Model ----------------------------
(***************************************************************************)
(* A model of the data-acquisition pipeline of youtube-trend-collector:    *)
(*   - the NDJSON stream parser and the yt-dlp search process              *)
(*     (services/youtube.ts, hardened variant, and the V2 collector),      *)
(*   - the collection orchestrator (services/collector.ts) together with   *)
(*     the keyword management routes that change the keywords it reads.    *)
(*   - the tables it writes and the daily aggregation updateTrends, one    *)
(*     step per awaited database statement.  Time is counted in days.      *)
(*                                                                         *)
(* The output of yt-dlp is a sequence of bytes, text a sequence of         *)
(* characters.  The JSON alphabet is reduced to  {  (standing for the      *)
(* opening  {"id":"  of a record),  }  (its closing  "} ) and the          *)
(* characters of the id between them: a, b and the two-byte character E.   *)
(* CR and LF are line delimiters and JSON/trim whitespace.                 *)
(***************************************************************************)
EXTENDS Integers, Sequences, FiniteSets, TLC

VARIABLES
    variant,     \* which parser the search uses: "hardened" | "v2"
    invocation,  \* the call of searchYouTube: its options, the time of the
                 \* call and the argument list yt-dlp is spawned with
    decoded,     \* the object JSON.parse returned for the line at hand, and
                 \* whether parseVideoInfo mapped it or threw
    written,     \* the bytes the yt-dlp process writes to stdout
    delivered,   \* how many of them have been emitted as 'data'
    buffer,      \* the parser's buffer
    videos,      \* the search's videos array
    proc,        \* events seen so far: [closed, code, errored, err, stderr],
                 \* and, when traced, the sizes of the stdout chunks
    promise,     \* the promise returned by searchYouTube
    keywords,    \* table keywords: id -> [exists, isActive]
    videosTable, \* table videos: rows in insertion order
    trends,      \* table trends: rows in insertion order
    collectionLogs, \* table collection_logs: rows in insertion order
    clock,       \* the current day, as new Date() reads it
    run,         \* the collectAll invocation of each trigger
    inflight,    \* the yt-dlp search processes that are running
    credentials, \* whether TELEGRAM_BOT_TOKEN and TELEGRAM_CHAT_ID are set
    scheduler    \* scheduledTask and the cron tasks created so far

searchVars ==
    <<variant, invocation, decoded, written, delivered, buffer, videos, proc,
      promise>>
dbVars == <<keywords, videosTable, trends, collectionLogs, clock>>
collectVars == <<dbVars, run, inflight, credentials, scheduler>>

-----------------------------------------------------------------------------
(* Bounds *)

MaxLines == 2
NumKeywords == 2
MaxDay == 2
MaxStderr == 2
MaxTraced == 7

-----------------------------------------------------------------------------
(* Text *)

LF == "\n"
CR == "\r"
Whitespace == {CR, LF}

\* const MAX_BUFFER_CHARS = 5_000_000, scaled down to the model's line sizes:
\* longer than every line of LineBodies with its terminator, shorter than two.
MAX_BUFFER_CHARS == 6

RECURSIVE TrimStart(_)
TrimStart(s) ==
    IF s # <<>> /\ Head(s) \in Whitespace THEN TrimStart(Tail(s)) ELSE s

RECURSIVE TrimEnd(_)
TrimEnd(s) ==
    IF s # <<>> /\ s[Len(s)] \in Whitespace
    THEN TrimEnd(SubSeq(s, 1, Len(s) - 1))
    ELSE s

\* String.prototype.trim
Trim(s) == TrimEnd(TrimStart(s))

\* buffer.indexOf('\n'), 1-based; 0 when absent
IndexOfLF(s) ==
    IF \E i \in 1..Len(s) : s[i] = LF
    THEN CHOOSE i \in 1..Len(s) : s[i] = LF /\ \A j \in 1..(i - 1) : s[j] # LF
    ELSE 0

\* String.prototype.split(/\r?\n/): the leftmost match starts at the CR
\* before the first LF when there is one, else at that LF.
RECURSIVE SplitLines(_)
SplitLines(s) ==
    LET nl == IndexOfLF(s) IN
    IF nl = 0 THEN <<s>>
    ELSE LET cut == IF nl > 1 /\ s[nl - 1] = CR THEN nl - 2 ELSE nl - 1
         IN  <<SubSeq(s, 1, cut)>> \o SplitLines(SubSeq(s, nl + 1, Len(s)))

-----------------------------------------------------------------------------
(* Decoding and mapping *)

\* the UTF-8 encoding of the character "E" is the byte pair E1 E2
Lead == "E1"
Cont == "E2"
Replacement == "U+FFFD"
StringChars == {"a", "b", "E", Replacement}

\* Buffer.prototype.toString() of one chunk: a complete byte pair decodes to
\* its character, a lead byte without its continuation and a continuation
\* byte without its lead decode to U+FFFD, other bytes are ASCII
RECURSIVE toString(_)
toString(bytes) ==
    IF bytes = <<>> THEN <<>>
    ELSE IF Head(bytes) = Lead /\ Len(bytes) >= 2 /\ bytes[2] = Cont
    THEN <<"E">> \o toString(SubSeq(bytes, 3, Len(bytes)))
    ELSE IF Head(bytes) \in {Lead, Cont}
    THEN <<Replacement>> \o toString(Tail(bytes))
    ELSE <<Head(bytes)>> \o toString(Tail(bytes))

\* JSON.parse: whitespace around the value is insignificant; the text must
\* be exactly one record, and a raw CR or LF inside its string is an error.
\* ok = FALSE stands for the SyntaxError thrown.
JsonParse(text) ==
    LET t == Trim(text) IN
    IF /\ Len(t) >= 2
       /\ t[1] = "{"
       /\ t[Len(t)] = "}"
       /\ \A n \in 2..(Len(t) - 1) : t[n] \in StringChars
    THEN [ok |-> TRUE, raw |-> [id |-> SubSeq(t, 2, Len(t) - 1)]]
    ELSE [ok |-> FALSE, raw |-> [id |-> <<>>]]

Has(data, k) == k \in DOMAIN data

\* parseVideoInfo of youtube.ts: id: data.id, title: data.title || 'Unknown
\* Title', channel: data.channel || ... || 'Unknown Channel', viewCount:
\* data.view_count || 0
parseVideoInfo(data) ==
    [id        |-> data.id,
     title     |-> IF Has(data, "title") THEN data.title ELSE "Unknown Title",
     channel   |-> IF Has(data, "channel") THEN data.channel
                   ELSE "Unknown Channel",
     viewCount |-> IF Has(data, "view_count") THEN data.view_count ELSE 0]

\* parseVideoInfo of the V2 file: id = getString('id') ?? ''
parseVideoInfoV2(data) ==
    [id        |-> IF Has(data, "id") THEN data.id ELSE <<>>,
     title     |-> IF Has(data, "title") THEN data.title ELSE "Unknown Title",
     channel   |-> IF Has(data, "channel") THEN data.channel
                   ELSE "Unknown Channel",
     viewCount |-> IF Has(data, "view_count") THEN data.view_count ELSE 0]

-----------------------------------------------------------------------------
(* The hardened parser of searchYouTube *)

\* tryParseLine: blank lines are skipped, a line that does not parse is
\* ignored, a parsed line is mapped and pushed.
tryParseLine(vids, line) ==
    LET trimmed == Trim(line) IN
    IF trimmed = <<>> THEN vids
    ELSE LET p == JsonParse(trimmed) IN
         IF p.ok THEN Append(vids, parseVideoInfo(p.raw)) ELSE vids

\* the while (true) loop of consumeNdjson
RECURSIVE DrainLines(_, _)
DrainLines(buf, vids) ==
    LET nl == IndexOfLF(buf) IN
    IF nl = 0 THEN [buffer |-> buf, videos |-> vids]
    ELSE LET raw  == SubSeq(buf, 1, nl - 1)
             line == IF raw # <<>> /\ raw[Len(raw)] = CR
                     THEN SubSeq(raw, 1, Len(raw) - 1)
                     ELSE raw
         IN  DrainLines(SubSeq(buf, nl + 1, Len(buf)), tryParseLine(vids, line))

\* consumeNdjson: append, apply the safety net, then drain complete lines
consumeNdjson(buf, vids, chunk) ==
    LET b == buf \o chunk IN
    IF Len(b) > MAX_BUFFER_CHARS
    THEN [buffer |-> <<>>, videos |-> vids]
    ELSE DrainLines(b, vids)

RECURSIVE ParseEach(_, _)
ParseEach(vids, lines) ==
    IF lines = <<>> THEN vids
    ELSE ParseEach(tryParseLine(vids, Head(lines)), Tail(lines))

\* flushNdjson
flushNdjson(buf, vids) ==
    IF buf = <<>> THEN [buffer |-> buf, videos |-> vids]
    ELSE [buffer |-> <<>>, videos |-> ParseEach(vids, SplitLines(buf))]

-----------------------------------------------------------------------------
(* The V2 parser: createNdjsonCollector *)

\* the body of the for loops of consume and flush
collectorItem(vids, line) ==
    IF Trim(line) = <<>> THEN vids
    ELSE LET p == JsonParse(line) IN
         IF p.ok THEN Append(vids, parseVideoInfoV2(p.raw)) ELSE vids

RECURSIVE CollectEach(_, _)
CollectEach(vids, lines) ==
    IF lines = <<>> THEN vids
    ELSE CollectEach(collectorItem(vids, Head(lines)), Tail(lines))

\* consume: split, keep the last piece, emit the others
collectorConsume(buf, vids, chunk) ==
    LET lines == SplitLines(buf \o chunk) IN
    [buffer |-> lines[Len(lines)],
     videos |-> CollectEach(vids, SubSeq(lines, 1, Len(lines) - 1))]

\* flush
collectorFlush(buf, vids) ==
    IF buf = <<>> THEN [buffer |-> buf, videos |-> vids]
    ELSE [buffer |-> <<>>, videos |-> CollectEach(vids, SplitLines(buf))]

Consume(v, buf, vids, chunk) ==
    IF v = "hardened" THEN consumeNdjson(buf, vids, chunk)
    ELSE collectorConsume(buf, vids, chunk)

Flush(v, buf, vids) ==
    IF v = "hardened" THEN flushNdjson(buf, vids)
    ELSE collectorFlush(buf, vids)

-----------------------------------------------------------------------------
(* The argument list of searchYouTube *)

\* the values of the options: undefined, a number, a string
Undefined == [type |-> "undefined"]
Number(n) == [type |-> "number", n |-> n]
String(s) == [type |-> "string", s |-> s]

\* const DEFAULT_OPTIONS = { limit: 10, sort: 'view_count', maxAgeDays: 7 };
\* an options object is a function from the keys it has to their values,
\* and a key can be there with the value undefined
DEFAULT_OPTIONS ==
    [limit |-> Number(10), sort |-> String("view_count"),
     maxAgeDays |-> Number(7)]

\* { ...a, ...b }: every own key of b, undefined or not, replaces that of a
Spread(a, b) ==
    [k \in DOMAIN a \cup DOMAIN b |-> IF k \in DOMAIN b THEN b[k] ELSE a[k]]

\* o.k, undefined for a key that is not there
Get(o, k) == IF k \in DOMAIN o THEN o[k] ELSE Undefined

\* the condition of if (x): undefined, 0 and '' are falsy
Truthy(x) ==
    /\ x # Undefined
    /\ x.type = "number" => x.n # 0
    /\ x.type = "string" => x.s # ""

\* const dateFilter = { today: 'today', this_week: 'thisweek', ... }
dateFilter ==
    [today |-> "today", this_week |-> "thisweek", this_month |-> "thismonth",
     this_year |-> "thisyear"]

\* the elements of args: a literal, the search directive
\* `${searchPrefix}${limit}:${keyword}`, String(limit), and a date
\* YYYYMMDD, kept as its day number
Lit(text) == [kind |-> "literal", text |-> text]
Query(prefix, limit, keyword) ==
    [kind |-> "query", prefix |-> prefix, limit |-> limit, keyword |-> keyword]
Digits(limit) == [kind |-> "digits", of |-> limit]
Ymd(day) == [kind |-> "date", day |-> day]

\* const dateAfter = new Date(); dateAfter.setDate(dateAfter.getDate() -
\* maxAgeDays); dateAfter.toISOString().slice(0, 10).replace(/-/g, ''):
\* setDate counts in local days, toISOString gives the UTC date of the
\* result, which is the local date or the day before or after it (shift)
cutoffDate(now, maxAgeDays, shift) == Ymd(now - maxAgeDays.n + shift)

\* if (opts.maxAgeDays) args.push('--dateafter', dateStr)
\* else if (dateRange) args.push('--dateafter', dateFilter[dateRange])
dateArgs(opts, now, shift) ==
    IF Truthy(Get(opts, "maxAgeDays"))
    THEN <<Lit("--dateafter"), cutoffDate(now, Get(opts, "maxAgeDays"), shift)>>
    ELSE IF Truthy(Get(opts, "dateRange"))
    THEN <<Lit("--dateafter"), Lit(dateFilter[Get(opts, "dateRange").s])>>
    ELSE <<>>

\* the args of searchYouTube (hardened) and of searchYouTubeV2
buildArgs(v, keyword, options, now, shift) ==
    LET opts   == Spread(DEFAULT_OPTIONS, options)
        limit  == IF v = "hardened" \/ Get(opts, "limit") # Undefined
                  THEN Get(opts, "limit") ELSE DEFAULT_OPTIONS.limit
        prefix == IF Truthy(Get(opts, "maxAgeDays")) THEN "ytsearchdate"
                  ELSE "ytsearch"
        sort   == Get(opts, "sort")
    IN  <<Query(prefix, limit, keyword), Lit("--dump-json"),
          Lit("--flat-playlist"), Lit("--no-warnings"), Lit("--quiet")>>
        \o (IF v = "v2" \/ (Truthy(sort) /\ sort # String("relevance"))
            THEN <<Lit("--playlist-end"), Digits(limit)>> ELSE <<>>)
        \o dateArgs(opts, now, shift)

\* the options a caller can pass: each key left out or given; maxAgeDays
\* also given as undefined, as 0 and as a number of days up to MaxAge
MaxAge == 2

NoOptions == [k \in {} |-> Undefined]

OptionChoices ==
    [limit      |-> {NoOptions, [limit |-> Number(5)]},
     sort       |-> {NoOptions, [sort |-> String("relevance")],
                     [sort |-> String("view_count")]},
     dateRange  |-> {NoOptions} \cup
                    {[dateRange |-> String(b)] : b \in DOMAIN dateFilter},
     maxAgeDays |-> {NoOptions, [maxAgeDays |-> Undefined]} \cup
                    {[maxAgeDays |-> Number(n)] : n \in 0..MaxAge}]

SearchOptions ==
    {Spread(Spread(l, s), Spread(d, m)) :
        l \in OptionChoices.limit, s \in OptionChoices.sort,
        d \in OptionChoices.dateRange, m \in OptionChoices.maxAgeDays}

\* the UTC date of a local time is the local date or a neighbour of it
UtcShifts == {-1, 0, 1}

\* searchYouTube(keyword, options) has been called and has not spawned yet
Called(options) ==
    [options |-> options, now |-> 0, shift |-> 0, spawned |-> FALSE,
     args |-> <<>>]

\* ... and has spawned yt-dlp with its args
Spawned(v, options, now, shift) ==
    [options |-> options, now |-> now, shift |-> shift, spawned |-> TRUE,
     args |-> buildArgs(v, "keyword", options, now, shift)]

\* searchYouTube up to const ytDlp = spawn('yt-dlp', args): the args are
\* built from the options at the time of the call
SpawnYtDlp(shift) ==
    /\ ~invocation.spawned
    /\ invocation' = Spawned(variant, invocation.options, clock, shift)
    /\ UNCHANGED <<variant, decoded, written, delivered, buffer, videos, proc,
                   promise, collectVars>>

-----------------------------------------------------------------------------
(* parseVideoInfo and formatDuration, field by field *)

\* a decoded object is a function from the keys it has to their values: a
\* number, or a string kept as the sequence of its characters
Str(chars) == [type |-> "string", chars |-> chars]

\* the condition of if (x), of x || y and of !x
ToBoolean(x) ==
    /\ x # Undefined
    /\ x.type = "number" => x.n # 0
    /\ x.type = "string" => x.chars # <<>>

\* x || y
Or(x, y) == IF ToBoolean(x) THEN x ELSE y

\* x ?? y
Nullish(x, y) == IF x # Undefined THEN x ELSE y

\* const getString = (k) => (typeof data[k] === 'string' ? data[k] : undefined)
getString(data, k) ==
    IF Get(data, k).type = "string" THEN Get(data, k) ELSE Undefined

\* const getNumber = (k) => (typeof data[k] === 'number' ? data[k] : undefined)
getNumber(data, k) ==
    IF Get(data, k).type = "number" THEN Get(data, k) ELSE Undefined

DigitChars == <<"0", "1", "2", "3", "4", "5", "6", "7", "8", "9">>

IsDigit(c) == \E n \in 1..Len(DigitChars) : DigitChars[n] = c

DigitValue(c) == (CHOOSE n \in 1..Len(DigitChars) : DigitChars[n] = c) - 1

\* n.toString() of a natural number
RECURSIVE numberToString(_)
numberToString(n) ==
    IF n < 10 THEN <<DigitChars[n + 1]>>
    ELSE numberToString(n \div 10) \o <<DigitChars[(n % 10) + 1]>>

\* s.padStart(2, '0')
padStart(chars) == IF Len(chars) < 2 THEN <<"0">> \o chars ELSE chars

NaN == <<"N", "a", "N">>

\* formatDuration(seconds): undefined for a falsy argument; a string that
\* is no number makes every quotient and remainder NaN, and NaN > 0 is false
formatDuration(seconds) ==
    IF ~ToBoolean(seconds) THEN Undefined
    ELSE IF seconds.type # "number" THEN Str(NaN \o <<":">> \o NaN)
    ELSE LET hrs  == seconds.n \div 3600
             mins == (seconds.n % 3600) \div 60
             secs == seconds.n % 60
         IN  IF hrs > 0
             THEN Str(numberToString(hrs) \o <<":">>
                      \o padStart(numberToString(mins)) \o <<":">>
                      \o padStart(numberToString(secs)))
             ELSE Str(numberToString(mins) \o <<":">>
                      \o padStart(numberToString(secs)))

\* s.slice(a, b) for 0 <= a <= b
slice(chars, a, b) ==
    SubSeq(chars, a + 1, IF b < Len(chars) THEN b ELSE Len(chars))

\* the number a two-digit or four-digit part of a date stands for
RECURSIVE parseDigits(_)
parseDigits(chars) ==
    IF chars = <<>> THEN 0
    ELSE 10 * parseDigits(SubSeq(chars, 1, Len(chars) - 1))
         + DigitValue(chars[Len(chars)])

\* new Date(`${year}-${month}-${day}`): the date of a YYYY-MM-DD string, and
\* Invalid Date (valid = FALSE) for a string of another form
NewDate(year, month, day) ==
    [type  |-> "date",
     text  |-> year \o <<"-">> \o month \o <<"-">> \o day,
     valid |-> /\ Len(year) = 4 /\ Len(month) = 2 /\ Len(day) = 2
               /\ \A n \in 1..4 : IsDigit(year[n])
               /\ \A n \in 1..2 : IsDigit(month[n]) /\ IsDigit(day[n])
               /\ parseDigits(month) \in 1..12
               /\ parseDigits(day) \in 1..31]

\* /^\d{8}$/.test(s)
IsEightDigits(chars) ==
    Len(chars) = 8 /\ \A n \in 1..8 : IsDigit(chars[n])

\* `https://youtube.com/watch?v=${id}`, and 'https://youtube.com'
WatchUrl(id) == [type |-> "url", watch |-> id]
SiteUrl == [type |-> "url", site |-> "https://youtube.com"]

UnknownTitle == Str(<<"Unknown Title">>)
UnknownChannel == Str(<<"Unknown Channel">>)

NoInfo ==
    [id |-> Undefined, title |-> Undefined, url |-> Undefined,
     channel |-> Undefined, viewCount |-> Undefined, duration |-> Undefined,
     publishedAt |-> Undefined]

\* parseVideoInfo of youtube.ts: data.upload_date.slice is a TypeError for
\* a truthy upload_date that is no string; thrown = TRUE stands for it
parseVideoInfoFields(data) ==
    LET upload == Get(data, "upload_date") IN
    IF ToBoolean(upload) /\ upload.type # "string"
    THEN [thrown |-> TRUE, info |-> NoInfo]
    ELSE [thrown |-> FALSE,
          info |->
            [id |-> Get(data, "id"),
             title |-> Or(Get(data, "title"), UnknownTitle),
             url |-> Or(Get(data, "webpage_url"), WatchUrl(Get(data, "id"))),
             channel |-> Or(Get(data, "channel"),
                            Or(Get(data, "uploader"), UnknownChannel)),
             viewCount |-> Or(Get(data, "view_count"), Number(0)),
             duration |-> formatDuration(Get(data, "duration")),
             publishedAt |->
                 IF ToBoolean(upload)
                 THEN NewDate(slice(upload.chars, 0, 4),
                              slice(upload.chars, 4, 6),
                              slice(upload.chars, 6, 8))
                 ELSE Undefined]]

\* parseVideoInfo of the V2 file: every field goes through getString or
\* getNumber
parseVideoInfoV2Fields(data) ==
    LET uploadDate == getString(data, "upload_date")
        id == Nullish(getString(data, "id"), Str(<<>>))
    IN  [thrown |-> FALSE,
         info |->
           [id |-> id,
            title |-> Nullish(getString(data, "title"), UnknownTitle),
            url |-> Nullish(getString(data, "webpage_url"),
                            IF ToBoolean(id) THEN WatchUrl(id) ELSE SiteUrl),
            channel |-> Nullish(getString(data, "channel"),
                                Nullish(getString(data, "uploader"),
                                        UnknownChannel)),
            viewCount |-> Nullish(getNumber(data, "view_count"), Number(0)),
            duration |-> formatDuration(getNumber(data, "duration")),
            publishedAt |->
                IF ToBoolean(uploadDate) /\ IsEightDigits(uploadDate.chars)
                THEN NewDate(slice(uploadDate.chars, 0, 4),
                             slice(uploadDate.chars, 4, 6),
                             slice(uploadDate.chars, 6, 8))
                ELSE Undefined]]

parseVideoInfoOf(v, data) ==
    IF v = "hardened" THEN parseVideoInfoFields(data)
    ELSE parseVideoInfoV2Fields(data)

\* the objects yt-dlp's lines decode to: each key left out or given, with
\* a value of the type yt-dlp documents or of another one
FieldChoices ==
    [id          |-> {Str(<<"a">>)},
     title       |-> {Undefined, Str(<<"t">>), Number(5)},
     webpage_url |-> {Undefined, Str(<<"u">>)},
     channel     |-> {Undefined, Str(<<"c">>)},
     uploader    |-> {Undefined, Str(<<"p">>)},
     view_count  |-> {Undefined, Number(0), Number(7), Str(<<"x">>)},
     duration    |-> {Undefined, Number(0), Number(59), Number(365),
                      Number(3600), Number(3725), Str(<<"x">>)},
     upload_date |-> {Undefined, Number(20230101),
                      Str(<<"2", "0", "2", "3", "0", "1", "0", "1">>),
                      Str(<<"2", "0", "2", "3">>),
                      Str(<<"2", "0", "2", "3", "-", "1", "-", "1">>)}]

\* JSON.parse gives an object only the keys of the text
ObjectOf(c) == [k \in {f \in DOMAIN c : c[f] # Undefined} |-> c[k]]

DecodedObjects ==
    {ObjectOf([id |-> i, title |-> t, webpage_url |-> w, channel |-> c,
               uploader |-> u, view_count |-> v, duration |-> d,
               upload_date |-> p]) :
        i \in FieldChoices.id, t \in FieldChoices.title,
        w \in FieldChoices.webpage_url, c \in FieldChoices.channel,
        u \in FieldChoices.uploader, v \in FieldChoices.view_count,
        d \in FieldChoices.duration, p \in FieldChoices.upload_date}

\* no line is at hand; JSON.parse has returned the object of a line
NoDecoded == [pc |-> "none", data |-> ObjectOf([id |-> Undefined])]
Decoded(data) == [pc |-> "decoded", data |-> data]

\* try { videos.push(parseVideoInfo(info)) } catch { }: the record is pushed,
\* or the mapper throws and the line is dropped
MapDecoded ==
    /\ decoded.pc = "decoded"
    /\ LET r == parseVideoInfoOf(variant, decoded.data) IN
       /\ decoded' = [decoded EXCEPT !.pc = IF r.thrown THEN "dropped"
                                            ELSE "mapped"]
       /\ videos' = IF r.thrown THEN videos ELSE Append(videos, r.info)
    /\ UNCHANGED <<variant, invocation, written, delivered, buffer, proc,
                   promise, collectVars>>

\* what a line of yt-dlp output can look like: three records (one with a
\* two-byte character), a truncated record, a blank line
LineBodies ==
    { <<"{", "a", "}">>, <<"{", "b", "}">>, <<"{", Lead, Cont, "}">>,
      <<"{", "a">>, <<>> }
Terminators == { <<LF>>, <<CR, LF>> }
TerminatedLines == { b \o t : b \in LineBodies, t \in Terminators }

RECURSIVE LinePrefixes(_)
LinePrefixes(n) ==
    IF n = 0 THEN { <<>> }
    ELSE LET P == LinePrefixes(n - 1)
         IN  P \cup { p \o l : p \in P, l \in TerminatedLines }

\* up to MaxLines terminated lines, then a last line without delimiter
\* (empty: the output ends with a delimiter)
Payloads == { p \o b : p \in LinePrefixes(MaxLines), b \in LineBodies }

ExitCodes == {0, 1, 2}
\* the Error objects a failed spawn('yt-dlp', args) emits: the binary is
\* missing, or it may not be executed
SpawnENOENT == [code |-> "ENOENT", message |-> "spawn yt-dlp ENOENT"]
SpawnEACCES == [code |-> "EACCES", message |-> "spawn yt-dlp EACCES"]
SpawnErrors == {SpawnENOENT, SpawnEACCES}
NoSpawnError == [code |-> "", message |-> ""]

\* err.message.includes('ENOENT'), over the messages above
includesENOENT(message) == message \in {"spawn yt-dlp ENOENT"}
Variants == {"hardened", "v2"}

NoError == [kind |-> "none", code |-> 0]
Pending == [state |-> "pending", value |-> <<>>, error |-> NoError]

\* a promise that takes the outcome of every resolve and reject
SettleAgain(p, outcome) == outcome

\* resolve / reject settle a promise once; later calls are ignored
Settle(p, outcome) == IF p.state = "pending" THEN outcome ELSE p

\* a close handler that trusts the exit status over the observed output
closeOutcomeStrict(code, vids) ==
    IF code # 0
    THEN [state |-> "rejected", value |-> <<>>,
          error |-> [kind |-> "yt-dlp exited with code", code |-> code]]
    ELSE [state |-> "resolved", value |-> vids, error |-> NoError]

\* a close handler that never looks at the exit status
closeOutcomeLenient(code, vids) ==
    [state |-> "resolved", value |-> vids, error |-> NoError]

\* the decision of the 'close' handler, after the flush
closeOutcome(code, vids) ==
    IF code # 0 /\ Len(vids) = 0
    THEN [state |-> "rejected", value |-> <<>>,
          error |-> [kind |-> "yt-dlp exited with code", code |-> code]]
    ELSE [state |-> "resolved", value |-> vids, error |-> NoError]

\* an 'error' handler that passes every error on: ytDlp.on('error', reject)
errorOutcomePassed(err) ==
    [state |-> "rejected", value |-> <<>>,
     error |-> [kind |-> err.message, code |-> 0]]

\* the decision of the 'error' handler: an error whose message includes
\* 'ENOENT' is replaced by the not-installed error, any other is passed on
\* (a rejection is recorded by the message of its Error)
errorOutcome(err) ==
    IF includesENOENT(err.message)
    THEN [state |-> "rejected", value |-> <<>>,
          error |-> [kind |-> "yt-dlp not installed", code |-> 0]]
    ELSE [state |-> "rejected", value |-> <<>>,
          error |-> [kind |-> err.message, code |-> 0]]

NewProc ==
    [closed |-> FALSE, code |-> 0, errored |-> FALSE, err |-> NoSpawnError,
     stderr |-> 0, traced |-> FALSE, chunks |-> <<>>]

\* collectByKeyword calls searchYouTube(keyword.name, { limit }), limit = 10
SearchStart ==
    /\ invocation = Spawned(variant, [limit |-> Number(10)], 1, 0)
    /\ decoded = NoDecoded
    /\ delivered = 0
    /\ buffer = <<>>
    /\ videos = <<>>
    /\ proc = NewProc
    /\ promise = Pending

\* ytDlp.stdout.on('data', consumeNdjson): the next k bytes arrive as one
\* chunk, which the parser turns into text with chunk.toString()
OnData(k) ==
    /\ ~proc.closed
    /\ ~proc.errored
    /\ k \in 1..(Len(written) - delivered)
    /\ LET r == Consume(variant, buffer, videos,
                        toString(SubSeq(written, delivered + 1, delivered + k)))
       IN  /\ buffer' = r.buffer
           /\ videos' = r.videos
    /\ delivered' = delivered + k
    /\ proc' = IF proc.traced THEN [proc EXCEPT !.chunks = Append(@, k)]
               ELSE proc
    /\ UNCHANGED <<variant, invocation, decoded, written, promise, collectVars>>

\* ytDlp.on('close', ...): stdout has ended, so all output was delivered
OnClose(code) ==
    /\ ~proc.closed
    /\ delivered = Len(written)
    /\ LET r == Flush(variant, buffer, videos)
       IN  /\ buffer' = r.buffer
           /\ videos' = r.videos
           /\ promise' = Settle(promise, closeOutcome(code, r.videos))
    /\ proc' = [proc EXCEPT !.closed = TRUE, !.code = code]
    /\ UNCHANGED <<variant, invocation, decoded, written, delivered, collectVars>>

\* ytDlp.on('error', ...): the process could not be spawned; it wrote nothing
OnError(err) ==
    /\ ~proc.closed
    /\ ~proc.errored
    /\ written = <<>>
    /\ promise' = Settle(promise, errorOutcome(err))
    /\ proc' = [proc EXCEPT !.errored = TRUE, !.err = err]
    /\ UNCHANGED <<variant, invocation, decoded, written, delivered, buffer, videos, collectVars>>

\* what yt-dlp writes to stderr, chunk by chunk
StderrChunks == {"WARNING: retrying", "ERROR: unavailable"}

\* a stderr handler that takes an ERROR line for a failure of the search
onStderrParsed(p, data) ==
    IF data = "ERROR: unavailable"
    THEN Settle(p, [state |-> "rejected", value |-> <<>>,
                    error |-> [kind |-> data, code |-> 0]])
    ELSE p

\* ytDlp.stderr.on('data', ...): the chunk is printed with console.debug,
\* if at all; the promise is left as it is
onStderr(p, data) == p

OnStderr(data) ==
    /\ ~proc.closed
    /\ ~proc.errored
    /\ proc.stderr < MaxStderr
    /\ promise' = onStderr(promise, data)
    /\ proc' = [proc EXCEPT !.stderr = @ + 1]
    /\ UNCHANGED <<variant, invocation, decoded, written, delivered, buffer, videos, collectVars>>

-----------------------------------------------------------------------------
(* The database tables *)

KeywordIds == 1..NumKeywords
RunIds == {"manual", "scheduled"}

\* collectByKeyword is exported: besides the triggers of collectAll, a
\* caller that invokes it directly for one keyword
CallerIds == RunIds \cup {"direct"}

\* search results the orchestrator can receive: lists of videos with
\* distinct ids; yt-dlp reports a video with one view and no title or
\* channel, or with two views, its title and its channel
VideoInfos ==
    { parseVideoInfo([id |-> <<x>>, view_count |-> 1]) : x \in {"a", "b"} }
        \cup { parseVideoInfo([id |-> <<x>>, view_count |-> 2, title |-> "t",
                               channel |-> "c"]) :
                    x \in {"a", "b"} }
ResultLists ==
    { <<>> } \cup { <<v>> : v \in VideoInfos }
             \cup { <<p[1], p[2]>> :
                        p \in { q \in VideoInfos \X VideoInfos :
                                   q[1].id # q[2].id } }

\* db.query.keywords.findMany({ where: eq(keywords.isActive, true) }), by id
RECURSIVE activeFrom(_, _)
activeFrom(kws, k) ==
    IF k > NumKeywords THEN <<>>
    ELSE (IF kws[k].exists /\ kws[k].isActive THEN <<k>> ELSE <<>>)
         \o activeFrom(kws, k + 1)

findActiveKeywords(kws) == activeFrom(kws, 1)

RowOf(table, vid) ==
    IF \E n \in 1..Len(table) : table[n].videoId = vid
    THEN CHOOSE n \in 1..Len(table) : table[n].videoId = vid
    ELSE 0

\* an insert without the conflict clause and without the unique index
insertVideo(table, video, kwId, now) ==
    Append(table, [id |-> Len(table) + 1,
                   videoId |-> video.id, keywordId |-> kwId,
                   title |-> video.title, channelName |-> video.channel,
                   viewCount |-> video.viewCount,
                   collectedAt |-> now])

\* an upsert whose conflict clause sets every column of the sighting
upsertVideoReplaced(table, video, kwId, now) ==
    LET n == RowOf(table, video.id) IN
    IF n = 0 THEN insertVideo(table, video, kwId, now)
    ELSE [table EXCEPT ![n].keywordId = kwId,
                       ![n].title = video.title,
                       ![n].channelName = video.channel,
                       ![n].viewCount = video.viewCount,
                       ![n].collectedAt = now]

\* insert(videos).values(...).onConflictDoUpdate({ target: videos.videoId,
\* set: { title, viewCount, likeCount, collectedAt: new Date() } }); the id
\* of a row is its AUTOINCREMENT rowid, and no row of videos is ever deleted.
\* channelName stands for the columns only the insert writes (url,
\* channelName, duration, thumbnail, publishedAt)
upsertVideo(table, video, kwId, now) ==
    LET n == RowOf(table, video.id) IN
    IF n = 0
    THEN Append(table, [id |-> Len(table) + 1,
                        videoId |-> video.id, keywordId |-> kwId,
                        title |-> video.title, channelName |-> video.channel,
                        viewCount |-> video.viewCount,
                        collectedAt |-> now])
    ELSE [table EXCEPT ![n].title = video.title,
                       ![n].viewCount = video.viewCount,
                       ![n].collectedAt = now]

-----------------------------------------------------------------------------
(* collectByKeyword and collectAll *)

NoResult == [keywordId |-> 0, videosCollected |-> 0, errors |-> ""]

NoAgg == [videoCount |-> 0, totalViews |-> 0, avgViews |-> 0, topVideoId |-> 0]

\* Per run: the locals of collectAll (activeKeywords, the loop position i,
\* results, totalVideos, hasErrors, status) and of the collectByKeyword call
\* in progress (pending: the search results not yet saved, collectedCount).
\* calls, reads, spawns, writes and sleeps record history, per position of
\* activeKeywords: how often collectByKeyword was called, what its read of
\* the keyword found, how many yt-dlp processes it spawned, how many videos
\* it wrote; and how many delays of the loop have completed.  tool is what
\* the preflight reported.  searched, found and attempts record how the
\* search of a position settled ("resolved", or the error it was rejected
\* with), how many records it returned and how many upserts were
\* attempted; logged counts
\* the collection_logs rows the run inserted and logRow is the last one.
\* The locals of updateTrends: today, allKeywords, the loop position tk,
\* the aggregate agg computed from todayVideos, and existing, the row found
\* (0: none); updated and inserted count the rows the pass updated and
\* inserted.  alone tells a collectByKeyword called on its own from one
\* called by the loop of collectAll.  notified is the state of the
\* trigger's Telegram notification and reply is how the trigger completed.
NoRunResult == [totalKeywords |-> 0, totalVideos |-> 0, results |-> <<>>,
                status |-> ""]

NoReply == [outcome |-> "pending", result |-> NoRunResult, error |-> ""]

IdleRun ==
    [pc |-> "idle", activeKeywords |-> <<>>, i |-> 0, results |-> <<>>,
     totalVideos |-> 0, hasErrors |-> FALSE, status |-> "", error |-> "",
     pending |-> <<>>, collectedCount |-> 0,
     calls |-> <<>>, reads |-> <<>>, spawns |-> <<>>, writes |-> <<>>,
     sleeps |-> 0, tool |-> "unchecked",
     searched |-> <<>>, found |-> <<>>, attempts |-> <<>>,
     logged |-> 0, logRow |-> 0,
     today |-> 0, allKeywords |-> <<>>, tk |-> 0, agg |-> NoAgg,
     existing |-> 0, updated |-> 0, inserted |-> 0, alone |-> FALSE,
     notified |-> "none", reply |-> NoReply]

\* a collectByKeyword without the inactive check
isInactiveNever(kw) == FALSE

\* if (!keyword.isActive)
isInactive(kw) == ~kw.isActive

\* a status that looks at the video total first
runStatusVideosFirst(hasErrors, totalVideos) ==
    IF totalVideos > 0 THEN "success"
    ELSE IF hasErrors THEN "partial"
    ELSE "failed"

\* the run status of collectAll
runStatus(hasErrors, totalVideos) ==
    IF hasErrors THEN "partial"
    ELSE IF totalVideos > 0 THEN "success"
    ELSE "failed"

\* a loop that does not add up the videos
pushResultNoTotal(rec, result) ==
    [rec EXCEPT !.results = Append(@, result),
                !.hasErrors = @ \/ result.errors # "",
                !.pending = <<>>,
                !.pc = "sleep"]

\* a loop without the delay between keywords
pushResultNoDelay(rec, result) ==
    [rec EXCEPT !.results = Append(@, result),
                !.totalVideos = @ + result.videosCollected,
                !.hasErrors = @ \/ result.errors # "",
                !.pending = <<>>,
                !.i = @ + 1,
                !.pc = IF rec.i + 1 > Len(rec.activeKeywords)
                       THEN "log" ELSE "call"]

\* collectByKeyword returns its result.  Back in the loop of collectAll:
\* results.push(result); totalVideos += ...; if (result.errors) hasErrors =
\* true; then await sleep(2000).  Called on its own, the result goes to the
\* caller and nothing follows.
pushResult(rec, result) ==
    [rec EXCEPT !.results = Append(@, result),
                !.totalVideos = @ + result.videosCollected,
                !.hasErrors = @ \/ result.errors # "",
                !.pending = <<>>,
                !.pc = IF rec.alone THEN "done" ELSE "sleep"]

\* the delay is over: the for loop takes the next keyword, or ends
loopAdvance(rec) ==
    [rec EXCEPT !.sleeps = @ + 1,
                !.i = @ + 1,
                !.pc = IF rec.i + 1 > Len(rec.activeKeywords)
                       THEN "log" ELSE "call"]

\* the CollectAllResult that collectAll returns, at its early return and at
\* its end
resultOf(rec) ==
    [totalKeywords |-> Len(rec.activeKeywords),
     totalVideos   |-> rec.totalVideos,
     results       |-> rec.results,
     status        |-> rec.status]

\* a trigger (manual route, cron task, runNow) calls collectAll, which
\* starts the preflight checkYtDlp()
Trigger(r) ==
    /\ run[r].pc = "idle"
    /\ run' = [run EXCEPT ![r] = [IdleRun EXCEPT !.pc = "preflight"]]
    /\ UNCHANGED <<searchVars, scheduler, credentials, dbVars, inflight>>

\* collectByKeyword(k) is called on its own, for any keyword id
CallAlone(r, k) ==
    /\ run[r].pc \in {"idle", "done", "thrown"}
    /\ run' = [run EXCEPT ![r] =
                 [IdleRun EXCEPT !.pc = "call", !.alone = TRUE,
                                 !.activeKeywords = <<k>>, !.i = 1,
                                 !.calls = <<0>>, !.reads = <<"unread">>,
                                 !.spawns = <<0>>, !.writes = <<0>>,
                                 !.searched = <<"none">>, !.found = <<0>>,
                                 !.attempts = <<0>>]]
    /\ UNCHANGED <<searchVars, scheduler, credentials, dbVars, inflight>>

\* a collectAll that goes on without yt-dlp
PreflightIgnored(r, hasYtDlp) ==
    /\ run[r].pc = "preflight"
    /\ run' = [run EXCEPT ![r] =
                 [@ EXCEPT !.pc = "load",
                           !.tool = IF hasYtDlp THEN "available"
                                    ELSE "unavailable"]]
    /\ UNCHANGED <<searchVars, scheduler, credentials, dbVars, inflight>>

\* the preflight settles; without yt-dlp collectAll throws
Preflight(r, hasYtDlp) ==
    /\ run[r].pc = "preflight"
    /\ run' = [run EXCEPT ![r] =
                 IF hasYtDlp THEN [@ EXCEPT !.pc = "load",
                                            !.tool = "available"]
                 ELSE [@ EXCEPT !.pc = "thrown",
                                !.tool = "unavailable",
                                !.error = "yt-dlp is not installed"]]
    /\ UNCHANGED <<searchVars, scheduler, credentials, dbVars, inflight>>

\* a collectAll without the early return: a run with no keyword is
\* classified and logged like any other
LoadKeywordsNoReturn(r) ==
    /\ run[r].pc = "load"
    /\ LET act == findActiveKeywords(keywords) IN
       run' = [run EXCEPT ![r] =
                 [@ EXCEPT !.pc = IF act = <<>> THEN "log" ELSE "call",
                           !.activeKeywords = act,
                           !.i = 1,
                           !.calls = [n \in 1..Len(act) |-> 0],
                           !.reads = [n \in 1..Len(act) |-> "unread"],
                           !.spawns = [n \in 1..Len(act) |-> 0],
                           !.writes = [n \in 1..Len(act) |-> 0],
                           !.searched = [n \in 1..Len(act) |-> "none"],
                           !.found = [n \in 1..Len(act) |-> 0],
                           !.attempts = [n \in 1..Len(act) |-> 0]]]
    /\ UNCHANGED <<searchVars, scheduler, credentials, dbVars, inflight>>

\* the active keywords are loaded; with none collectAll returns at once
LoadKeywords(r) ==
    /\ run[r].pc = "load"
    /\ LET act == findActiveKeywords(keywords) IN
       run' = [run EXCEPT ![r] =
                 IF act = <<>>
                 THEN [@ EXCEPT !.pc = "returned", !.status = "success"]
                 ELSE [@ EXCEPT !.pc = "call", !.activeKeywords = act,
                                !.i = 1,
                                !.calls = [n \in 1..Len(act) |-> 0],
                                !.reads = [n \in 1..Len(act) |-> "unread"],
                                !.spawns = [n \in 1..Len(act) |-> 0],
                                !.writes = [n \in 1..Len(act) |-> 0],
                                !.searched = [n \in 1..Len(act) |-> "none"],
                                !.found = [n \in 1..Len(act) |-> 0],
                                !.attempts = [n \in 1..Len(act) |-> 0]]]
    /\ UNCHANGED <<searchVars, scheduler, credentials, dbVars, inflight>>

\* a collectByKeyword that does not look whether the keyword was found
notFoundNever(kw) == FALSE

\* if (!keyword): findFirst returned no row
notFound(kw) == ~kw.exists

\* collectByKeyword(keyword.id): the keyword is read; a missing keyword
\* throws, an inactive one returns its marker, an active one spawns yt-dlp
CollectByKeyword(r) ==
    /\ run[r].pc = "call"
    /\ LET rec == run[r]
           id  == rec.activeKeywords[rec.i]
           kw  == keywords[id]
           called == [rec EXCEPT !.calls[rec.i] = @ + 1,
                                 !.collectedCount = 0,
                                 !.reads[rec.i] =
                                     IF ~kw.exists THEN "missing"
                                     ELSE IF kw.isActive THEN "active"
                                     ELSE "inactive"]
       IN  IF notFound(kw)
           THEN /\ run' = [run EXCEPT ![r] =
                             [called EXCEPT !.pc = "thrown",
                                            !.error = "Keyword not found"]]
                /\ UNCHANGED inflight
           ELSE IF isInactive(kw)
           THEN /\ run' = [run EXCEPT ![r] =
                             pushResult(called,
                                [keywordId |-> id, videosCollected |-> 0,
                                 errors |-> "Keyword is inactive"])]
                /\ UNCHANGED inflight
           ELSE /\ run' = [run EXCEPT ![r] =
                             [called EXCEPT !.pc = "searching",
                                            !.spawns[rec.i] = @ + 1]]
                /\ inflight' = inflight \cup {[run |-> r, idx |-> rec.i]}
    /\ UNCHANGED <<searchVars, scheduler, credentials, dbVars>>

\* a collectByKeyword without its outer try/catch: a failed search throws
SearchSettlesThrows(r, outcome) ==
    /\ run[r].pc = "searching"
    /\ [run |-> r, idx |-> run[r].i] \in inflight
    /\ inflight' = inflight \ {[run |-> r, idx |-> run[r].i]}
    /\ LET id  == run[r].activeKeywords[run[r].i]
           rec == [run[r] EXCEPT !.searched[run[r].i] =
                                     IF outcome.state = "rejected"
                                     THEN outcome.error.kind ELSE "resolved",
                                 !.found[run[r].i] = Len(outcome.value)]
       IN  run' = [run EXCEPT ![r] =
             IF outcome.state = "rejected"
             THEN [rec EXCEPT !.pc = "thrown", !.error = outcome.error.kind]
             ELSE IF outcome.value = <<>>
             THEN pushResult(rec, [keywordId |-> id, videosCollected |-> 0,
                                   errors |-> ""])
             ELSE [rec EXCEPT !.pc = "saving", !.pending = outcome.value]]
    /\ UNCHANGED <<searchVars, scheduler, credentials, dbVars>>

\* the search settles: a rejection becomes the keyword's error, a result
\* list is saved record by record
SearchSettles(r, outcome) ==
    /\ run[r].pc = "searching"
    /\ [run |-> r, idx |-> run[r].i] \in inflight
    /\ inflight' = inflight \ {[run |-> r, idx |-> run[r].i]}
    /\ LET id  == run[r].activeKeywords[run[r].i]
           rec == [run[r] EXCEPT !.searched[run[r].i] =
                                     IF outcome.state = "rejected"
                                     THEN outcome.error.kind ELSE "resolved",
                                 !.found[run[r].i] = Len(outcome.value)]
       IN  run' = [run EXCEPT ![r] =
             IF outcome.state = "rejected"
             THEN pushResult(rec, [keywordId |-> id, videosCollected |-> 0,
                                   errors |-> outcome.error.kind])
             ELSE IF outcome.value = <<>>
             THEN pushResult(rec, [keywordId |-> id, videosCollected |-> 0,
                                   errors |-> ""])
             ELSE [rec EXCEPT !.pc = "saving", !.pending = outcome.value]]
    /\ UNCHANGED <<searchVars, scheduler, credentials, dbVars>>

\* a save loop without its inner try/catch: a failed upsert ends the batch
\* in the outer catch
SaveVideoAborts(r, ok) ==
    /\ run[r].pc = "saving"
    /\ run[r].pending # <<>>
    /\ LET rec   == run[r]
           id    == rec.activeKeywords[rec.i]
           video == Head(rec.pending)
           saved == [rec EXCEPT !.pending = Tail(@),
                                !.collectedCount = IF ok THEN @ + 1 ELSE @,
                                !.attempts[rec.i] = @ + 1,
                                !.writes[rec.i] = IF ok THEN @ + 1 ELSE @]
       IN  /\ videosTable' = IF ok
                             THEN upsertVideo(videosTable, video, id, clock)
                             ELSE videosTable
           /\ run' = [run EXCEPT ![r] =
                 IF ~ok
                 THEN pushResult(saved,
                        [keywordId |-> id, videosCollected |-> 0,
                         errors |-> "SqliteError"])
                 ELSE IF saved.pending = <<>>
                 THEN pushResult(saved,
                        [keywordId |-> id,
                         videosCollected |-> saved.collectedCount,
                         errors |-> ""])
                 ELSE saved]
    /\ UNCHANGED <<searchVars, scheduler, credentials, keywords, trends, collectionLogs, clock,
                   inflight>>

\* one pass of the for loop over searchResults: the upsert succeeds, or
\* fails and is logged; after the last record collectByKeyword returns
SaveVideo(r, ok) ==
    /\ run[r].pc = "saving"
    /\ run[r].pending # <<>>
    /\ LET rec   == run[r]
           id    == rec.activeKeywords[rec.i]
           video == Head(rec.pending)
           saved == [rec EXCEPT !.pending = Tail(@),
                                !.collectedCount = IF ok THEN @ + 1 ELSE @,
                                !.attempts[rec.i] = @ + 1,
                                !.writes[rec.i] = IF ok THEN @ + 1 ELSE @]
       IN  /\ videosTable' = IF ok
                             THEN upsertVideo(videosTable, video, id, clock)
                             ELSE videosTable
           /\ run' = [run EXCEPT ![r] =
                 IF saved.pending = <<>>
                 THEN pushResult(saved,
                        [keywordId |-> id,
                         videosCollected |-> saved.collectedCount,
                         errors |-> ""])
                 ELSE saved]
    /\ UNCHANGED <<searchVars, scheduler, credentials, keywords, trends, collectionLogs, clock,
                   inflight>>

\* a delay whose timer never ends
SleepNever(r) ==
    /\ FALSE
    /\ UNCHANGED <<searchVars, collectVars>>

\* await sleep(2000) is over
SleepDone(r) ==
    /\ run[r].pc = "sleep"
    /\ run' = [run EXCEPT ![r] = loopAdvance(@)]
    /\ UNCHANGED <<searchVars, scheduler, credentials, dbVars, inflight>>

\* a collectAll that aggregates without having logged the run
WriteLogSkipped(r) ==
    /\ run[r].pc = "log"
    /\ LET rec == run[r] IN
       run' = [run EXCEPT ![r] =
                 [rec EXCEPT !.status = runStatus(rec.hasErrors, rec.totalVideos),
                             !.pc = "trends"]]
    /\ UNCHANGED <<searchVars, scheduler, credentials, dbVars, inflight>>

\* after the loop: the status is computed and the run is logged
WriteLog(r) ==
    /\ run[r].pc = "log"
    /\ LET rec == run[r]
           st  == runStatus(rec.hasErrors, rec.totalVideos)
       IN  /\ collectionLogs' = Append(collectionLogs,
                 [keywordCount |-> Len(rec.activeKeywords),
                  videoCount |-> rec.totalVideos, status |-> st])
           /\ run' = [run EXCEPT ![r] =
                 [@ EXCEPT !.status = st,
                           !.logged = @ + 1,
                           !.logRow = Len(collectionLogs) + 1,
                           !.pc = "trends"]]
    /\ UNCHANGED <<searchVars, scheduler, credentials, keywords, videosTable, trends, clock, inflight>>

-----------------------------------------------------------------------------
(* updateTrends *)

\* db.query.keywords.findMany(), by id
RECURSIVE allFrom(_, _)
allFrom(kws, k) ==
    IF k > NumKeywords THEN <<>>
    ELSE (IF kws[k].exists THEN <<k>> ELSE <<>>) \o allFrom(kws, k + 1)

\* a select without the date condition: all the videos of the keyword
allVideosOf(table, kwId, today) ==
    SelectSeq(table, LAMBDA row : row.keywordId = kwId)

\* select().from(videos).where(and(eq(videos.keywordId, keyword.id),
\* gte(videos.collectedAt, today)))
todayVideosOf(table, kwId, today) ==
    SelectSeq(table, LAMBDA row : row.keywordId = kwId /\ row.collectedAt >= today)

RECURSIVE SumViews(_)
SumViews(rows) ==
    IF rows = <<>> THEN 0 ELSE Head(rows).viewCount + SumViews(Tail(rows))

\* a reduce that keeps the last of the most viewed records
RECURSIVE TopRowLast(_, _)
TopRowLast(best, rows) ==
    IF rows = <<>> THEN best
    ELSE TopRowLast(IF Head(rows).viewCount >= best.viewCount THEN Head(rows)
                    ELSE best, Tail(rows))

\* todayVideos.reduce((max, v) => v.viewCount > max.viewCount ? v : max)
RECURSIVE TopRow(_, _)
TopRow(best, rows) ==
    IF rows = <<>> THEN best
    ELSE TopRow(IF Head(rows).viewCount > best.viewCount THEN Head(rows)
                ELSE best, Tail(rows))

\* Math.round(a / b) of non-negative a and positive b: halves round up
RoundDiv(a, b) == (2 * a + b) \div (2 * b)

\* the values updateTrends computes from a non-empty todayVideos
aggregate(rows) ==
    [videoCount |-> Len(rows),
     totalViews |-> SumViews(rows),
     avgViews   |-> RoundDiv(SumViews(rows), Len(rows)),
     topVideoId |-> TopRow(Head(rows), Tail(rows)).id]

\* a lookup that never finds the daily row: every write is an insert
findTrendNone(table, kwId, today) == 0

\* db.query.trends.findFirst({ where: and(eq(keywordId), eq(date, today),
\* eq(period, 'daily')) }): the position of the first such row, 0 if none
findTrend(table, kwId, today) ==
    LET hits == { n \in 1..Len(table) :
                     /\ table[n].keywordId = kwId
                     /\ table[n].date = today
                     /\ table[n].period = "daily" }
    IN  IF hits = {} THEN 0 ELSE CHOOSE n \in hits : \A m \in hits : n <= m

\* the for loop of updateTrends takes the next keyword; after the last one
\* updateTrends returns and collectAll returns its result
trendsAdvance(rec) ==
    [rec EXCEPT !.tk = @ + 1,
                !.pc = IF rec.tk + 1 > Len(rec.allKeywords)
                       THEN "returned" ELSE "tselect"]

\* updateTrends() is called: today is the start of the current day, and
\* all the keywords are loaded
TrendsStart(r) ==
    /\ run[r].pc = "trends"
    /\ LET all == allFrom(keywords, 1) IN
       run' = [run EXCEPT ![r] =
                 [@ EXCEPT !.today = clock,
                           !.allKeywords = all,
                           !.tk = 1,
                           !.pc = IF all = <<>> THEN "returned" ELSE "tselect"]]
    /\ UNCHANGED <<searchVars, scheduler, credentials, dbVars, inflight>>

\* the videos of the keyword collected today are read: with none the loop
\* continues, else the aggregate is computed and the existing row looked up
TrendsSelect(r) ==
    /\ run[r].pc = "tselect"
    /\ LET rec  == run[r]
           rows == todayVideosOf(videosTable, rec.allKeywords[rec.tk], rec.today)
       IN  run' = [run EXCEPT ![r] =
                     IF rows = <<>> THEN trendsAdvance(rec)
                     ELSE [rec EXCEPT !.agg = aggregate(rows), !.pc = "tfind"]]
    /\ UNCHANGED <<searchVars, scheduler, credentials, dbVars, inflight>>

\* the lookup of the keyword's daily row of today answers
TrendsFind(r) ==
    /\ run[r].pc = "tfind"
    /\ LET rec == run[r] IN
       run' = [run EXCEPT ![r] =
                 [rec EXCEPT !.existing =
                                 findTrend(trends, rec.allKeywords[rec.tk],
                                           rec.today),
                             !.pc = "twrite"]]
    /\ UNCHANGED <<searchVars, scheduler, credentials, dbVars, inflight>>

\* if (existing) update(trends).set({...}).where(eq(trends.id, existing.id))
\* else insert(trends).values({...})
TrendsWrite(r) ==
    /\ run[r].pc = "twrite"
    /\ LET rec == run[r]
           n   == rec.existing
       IN  /\ trends' =
                 IF n # 0
                 THEN [trends EXCEPT ![n].videoCount = rec.agg.videoCount,
                                     ![n].totalViews = rec.agg.totalViews,
                                     ![n].avgViews = rec.agg.avgViews,
                                     ![n].topVideoId = rec.agg.topVideoId]
                 ELSE Append(trends,
                        [keywordId  |-> rec.allKeywords[rec.tk],
                         date       |-> rec.today,
                         period     |-> "daily",
                         videoCount |-> rec.agg.videoCount,
                         totalViews |-> rec.agg.totalViews,
                         avgViews   |-> rec.agg.avgViews,
                         topVideoId |-> rec.agg.topVideoId])
           /\ run' = [run EXCEPT ![r] =
                 trendsAdvance([rec EXCEPT
                     !.updated = IF n # 0 THEN @ + 1 ELSE @,
                     !.inserted = IF n = 0 THEN @ + 1 ELSE @])]
    /\ UNCHANGED <<searchVars, scheduler, credentials, keywords, videosTable, collectionLogs, clock,
                   inflight>>

-----------------------------------------------------------------------------
(* The triggers and the notifier *)

\* how a trigger completes once collectAll has settled and the notifier has
\* returned.  POST /api/collect/manual: reply.send({ success: true, result })
\* or, from its catch, status 500 with the error message.  The cron
\* callback: its try and its catch both end normally.
completed(r, rec) ==
    IF r = "manual"
    THEN IF rec.pc = "returned"
         THEN [outcome |-> "200", result |-> resultOf(rec), error |-> ""]
         ELSE [outcome |-> "500", result |-> NoRunResult, error |-> rec.error]
    ELSE [outcome |-> "resolved", result |-> NoRunResult, error |-> ""]

\* a trigger that lets a failed delivery escape
completedUnlessFailed(r, rec, ok) ==
    IF ok THEN completed(r, rec)
    ELSE IF r = "manual"
    THEN [outcome |-> "500", result |-> NoRunResult, error |-> "ETELEGRAM"]
    ELSE [outcome |-> "rejected", result |-> NoRunResult, error |-> "ETELEGRAM"]

\* the trigger, after the notifier's bot.sendMessage has settled: the
\* notifier caught a failure and returned false, the trigger goes on
completedAfterSend(r, rec, ok) == completed(r, rec)

\* await notifyCollectionResult(result): without credentials it returns
\* false at once, else it builds the message and awaits bot.sendMessage
NotifyCollectionResult(r) ==
    /\ run[r].pc = "returned"
    /\ run[r].notified = "none"
    /\ LET rec == run[r] IN
       run' = [run EXCEPT ![r] =
                 IF credentials
                 THEN [rec EXCEPT !.notified = "sending"]
                 ELSE [rec EXCEPT !.notified = "unconfigured",
                                  !.reply = completed(r, rec)]]
    /\ UNCHANGED <<searchVars, scheduler, credentials, dbVars, inflight>>

\* collectAll threw: the route answers 500; the cron callback awaits
\* notifyError, whose sendMessage returns false without credentials
TriggerCatches(r) ==
    /\ run[r].pc = "thrown"
    /\ run[r].notified = "none"
    /\ run[r].reply = NoReply
    /\ LET rec == run[r] IN
       run' = [run EXCEPT ![r] =
                 IF r = "manual"
                 THEN [rec EXCEPT !.reply = completed(r, rec)]
                 ELSE IF credentials
                 THEN [rec EXCEPT !.notified = "sending"]
                 ELSE [rec EXCEPT !.notified = "unconfigured",
                                  !.reply = completed(r, rec)]]
    /\ UNCHANGED <<searchVars, scheduler, credentials, dbVars, inflight>>

\* bot.sendMessage settles: try { await ...; return true } catch { return
\* false }, and the trigger completes
SendSettles(r, ok) ==
    /\ run[r].notified = "sending"
    /\ LET rec == run[r] IN
       run' = [run EXCEPT ![r] =
                 [rec EXCEPT !.notified = IF ok THEN "sent" ELSE "failed",
                             !.reply = completedAfterSend(r, rec, ok)]]
    /\ UNCHANGED <<searchVars, scheduler, credentials, dbVars, inflight>>

-----------------------------------------------------------------------------
(* The scheduler *)

\* how many cron tasks are created
MaxTasks == 2

\* const DEFAULT_SCHEDULE = '0 9 * * *'
DEFAULT_SCHEDULE == "0 9 * * *"

\* the expressions startScheduler is called with; cron.schedule throws for
\* one that is no cron expression
Schedules == {DEFAULT_SCHEDULE, "*/5 * * * *", "every day"}

validate(schedule) == schedule \in {"0 9 * * *", "*/5 * * * *"}

\* let scheduledTask = null: scheduledTask is 0 or the number of a task;
\* tasks are the cron tasks created so far, each with the expression it
\* was scheduled with and whether it is live (created and not stopped);
\* busyStop records that a task was stopped while a run was in progress
NoScheduler == [scheduledTask |-> 0, tasks |-> <<>>, busyStop |-> FALSE]

\* stopScheduler(): if (scheduledTask) { scheduledTask.stop();
\* scheduledTask = null }
stopScheduler(s) ==
    IF s.scheduledTask # 0
    THEN [s EXCEPT !.tasks[s.scheduledTask].live = FALSE,
                   !.scheduledTask = 0]
    ELSE s

\* a startScheduler that does not stop the task it replaces
startSchedulerOver(s, schedule) ==
    IF validate(schedule)
    THEN [s EXCEPT !.tasks = Append(@, [expr |-> schedule, live |-> TRUE]),
                   !.scheduledTask = Len(s.tasks) + 1]
    ELSE s

\* startScheduler(schedule): stopScheduler(); scheduledTask =
\* cron.schedule(schedule, callback, { scheduled: true }), which throws
\* for an invalid expression
startScheduler(s, schedule) ==
    LET stopped == stopScheduler(s) IN
    IF validate(schedule)
    THEN [stopped EXCEPT
              !.tasks = Append(@, [expr |-> schedule, live |-> TRUE]),
              !.scheduledTask = Len(s.tasks) + 1]
    ELSE stopped

\* getSchedulerStatus(): { running: scheduledTask !== null,
\* schedule: scheduledTask ? DEFAULT_SCHEDULE : undefined }
getSchedulerStatus(s) ==
    [running  |-> s.scheduledTask # 0,
     schedule |-> IF s.scheduledTask # 0 THEN String(DEFAULT_SCHEDULE)
                  ELSE Undefined]

\* a run is in progress: some collectAll has neither returned nor thrown
Busy == \E r \in RunIds : run[r].pc \notin {"idle", "returned", "thrown"}

StartScheduler(schedule) ==
    /\ Len(scheduler.tasks) < MaxTasks
    /\ scheduler' =
          [startScheduler(scheduler, schedule) EXCEPT
              !.busyStop = @ \/ (Busy /\ scheduler.scheduledTask # 0)]
    /\ UNCHANGED <<searchVars, credentials, dbVars, run, inflight>>

StopScheduler ==
    /\ scheduler' =
          [stopScheduler(scheduler) EXCEPT
              !.busyStop = @ \/ (Busy /\ scheduler.scheduledTask # 0)]
    /\ UNCHANGED <<searchVars, credentials, dbVars, run, inflight>>

\* a live task fires: its callback calls collectAll(10)
CronTick ==
    /\ \E n \in 1..Len(scheduler.tasks) : scheduler.tasks[n].live
    /\ Trigger("scheduled")

-----------------------------------------------------------------------------
(* The keyword management routes *)

\* PATCH /api/keywords/:id/toggle
ToggleKeyword(k) ==
    /\ keywords[k].exists
    /\ keywords' = [keywords EXCEPT ![k].isActive = ~@]
    /\ UNCHANGED <<searchVars, scheduler, credentials, videosTable, trends, collectionLogs, clock,
                   run, inflight>>

\* keyword_id INTEGER REFERENCES keywords(id), in videos and in trends:
\* better-sqlite3 enforces foreign keys, a referenced keyword is not deleted
referenced(k) ==
    \/ \E n \in 1..Len(videosTable) : videosTable[n].keywordId = k
    \/ \E n \in 1..Len(trends) : trends[n].keywordId = k

\* DELETE /api/keywords/:id
DeleteKeyword(k) ==
    /\ keywords[k].exists
    /\ ~referenced(k)
    /\ keywords' = [keywords EXCEPT ![k] = [exists |-> FALSE, isActive |-> FALSE]]
    /\ UNCHANGED <<searchVars, scheduler, credentials, videosTable, trends, collectionLogs, clock,
                   run, inflight>>

\* midnight passes
Midnight ==
    /\ clock < MaxDay
    /\ clock' = clock + 1
    /\ UNCHANGED <<searchVars, scheduler, credentials, keywords, videosTable, trends, collectionLogs,
                   run, inflight>>

-----------------------------------------------------------------------------
(* Specifications *)

vars == <<searchVars, collectVars>>

TablesStart ==
    /\ keywords = [k \in KeywordIds |-> [exists |-> TRUE, isActive |-> TRUE]]
    /\ videosTable = <<>>
    /\ trends = <<>>
    /\ collectionLogs = <<>>
    /\ clock = 1
    /\ run = [r \in CallerIds |-> IdleRun]
    /\ inflight = {}
    /\ scheduler = NoScheduler

CollectStart ==
    /\ TablesStart
    /\ credentials = TRUE

\* what a search can settle with, as the orchestrator sees it
SearchOutcomes ==
    { closeOutcome(code, vids) : code \in {0, 1}, vids \in ResultLists }
        \cup { errorOutcome(SpawnENOENT) }

\* one yt-dlp process, from spawn to its last event
SearchInit ==
    /\ variant \in Variants
    /\ written \in Payloads
    /\ SearchStart
    /\ CollectStart

SearchNext ==
    \/ \E k \in 1..(MaxLines + 1) * MAX_BUFFER_CHARS : OnData(k)
    \/ \E code \in ExitCodes : OnClose(code)
    \/ \E err \in SpawnErrors : OnError(err)

SpecSearch == SearchInit /\ [][SearchNext]_vars

\* one yt-dlp process that also writes to stderr, at any time before it
\* closes; the sizes of its stdout chunks are recorded
StderrInit ==
    /\ variant \in Variants
    /\ invocation = Spawned(variant, [limit |-> Number(10)], 1, 0)
    /\ decoded = NoDecoded
    /\ written \in { p \in Payloads : Len(p) <= MaxTraced }
    /\ delivered = 0
    /\ buffer = <<>>
    /\ videos = <<>>
    /\ proc = [NewProc EXCEPT !.traced = TRUE]
    /\ promise = Pending
    /\ CollectStart

StderrNext ==
    \/ \E k \in 1..MaxTraced : OnData(k)
    \/ \E data \in StderrChunks : OnStderr(data)
    \/ \E code \in ExitCodes : OnClose(code)
    \/ \E err \in SpawnErrors : OnError(err)

SpecStderr == StderrInit /\ [][StderrNext]_vars

\* corrupted output: a line longer than the buffer bound, with no delimiter
\* in it, followed by ordinary output; the hardened parser, the sizes of the
\* chunks recorded
Garbage == [n \in 1..(MAX_BUFFER_CHARS + 1) |-> "a"]

\* the ordinary output: ASCII lines ending with LF
OverflowTails ==
    { q \in Payloads :
        Len(q) <= MaxTraced /\ \A n \in 1..Len(q) : q[n] \notin {Lead, Cont, CR} }

OverflowPayloads == { Garbage \o <<LF>> \o p : p \in OverflowTails }

OverflowInit ==
    /\ variant = "hardened"
    /\ invocation = Spawned(variant, [limit |-> Number(10)], 1, 0)
    /\ decoded = NoDecoded
    /\ written \in OverflowPayloads
    /\ delivered = 0
    /\ buffer = <<>>
    /\ videos = <<>>
    /\ proc = [NewProc EXCEPT !.traced = TRUE]
    /\ promise = Pending
    /\ CollectStart

OverflowNext ==
    \/ \E k \in 1..MaxTraced : OnData(k)
    \/ \E code \in ExitCodes : OnClose(code)

SpecOverflow == OverflowInit /\ [][OverflowNext]_vars

\* one collectAll run, with the management routes changing the keywords
Init ==
    /\ variant = "hardened"
    /\ written = <<>>
    /\ SearchStart
    /\ CollectStart

Next ==
    \/ Trigger("manual")
    \/ \E ok \in BOOLEAN : Preflight("manual", ok)
    \/ LoadKeywords("manual")
    \/ CollectByKeyword("manual")
    \/ \E o \in SearchOutcomes : SearchSettles("manual", o)
    \/ \E ok \in BOOLEAN : SaveVideo("manual", ok)
    \/ SleepDone("manual")
    \/ WriteLog("manual")
    \/ TrendsStart("manual")
    \/ TrendsSelect("manual")
    \/ TrendsFind("manual")
    \/ TrendsWrite("manual")
    \/ \E k \in KeywordIds : ToggleKeyword(k)
    \/ \E k \in KeywordIds : DeleteKeyword(k)

Spec == Init /\ [][Next]_vars

\* what the searches of two runs settle with: two videos of one and two
\* views, one video seen again with one view, no video, or a failure
RunsOutcomes ==
    LET A1 == parseVideoInfo([id |-> <<"a">>, view_count |-> 1])
        B1 == parseVideoInfo([id |-> <<"b">>, view_count |-> 1])
        B2 == parseVideoInfo([id |-> <<"b">>, view_count |-> 2, title |-> "t",
                              channel |-> "c"])
    IN  { closeOutcome(0, <<A1, B2>>), closeOutcome(0, <<B1>>),
          closeOutcome(1, <<>>) }

\* a manual collectAll and, when it has finished, a scheduled one, on the
\* same day or on a later one, with keywords toggled between the two
Finished(r) == run[r].pc \in {"returned", "thrown"}

DayNext ==
    \/ Trigger("manual")
    \/ Finished("manual") /\ Trigger("scheduled")
    \/ \E r \in RunIds :
          \/ Preflight(r, TRUE)
          \/ LoadKeywords(r)
          \/ CollectByKeyword(r)
          \/ \E o \in RunsOutcomes : SearchSettles(r, o)
          \/ SaveVideo(r, TRUE)
          \/ SleepDone(r)
          \/ WriteLog(r)
          \/ TrendsStart(r)
          \/ TrendsSelect(r)
          \/ TrendsFind(r)
          \/ TrendsWrite(r)
    \/ /\ Finished("manual")
       /\ run["scheduled"].pc = "idle"
       /\ \E k \in KeywordIds : ToggleKeyword(k)
    \/ Midnight

SpecDay == Init /\ [][DayNext]_vars

\* a manual and a scheduled collectAll, each started at any time, also
\* while the other one runs
OverlapOutcomes ==
    { closeOutcome(0, <<parseVideoInfo([id |-> <<"a">>, view_count |-> 1])>>),
      closeOutcome(1, <<>>) }

OverlapNext ==
    \E r \in RunIds :
        \/ Trigger(r)
        \/ Preflight(r, TRUE)
        \/ LoadKeywords(r)
        \/ CollectByKeyword(r)
        \/ \E o \in OverlapOutcomes : SearchSettles(r, o)
        \/ SaveVideo(r, TRUE)
        \/ SleepDone(r)
        \/ WriteLog(r)
        \/ TrendsStart(r)
        \/ TrendsSelect(r)
        \/ TrendsFind(r)
        \/ TrendsWrite(r)

SpecOverlap == Init /\ [][OverlapNext]_vars

\* a manual collectAll, and collectByKeyword called on its own at any time,
\* before, while and after collectAll runs, again and again; a search finds
\* one video or fails
DirectNext ==
    \/ Trigger("manual")
    \/ Preflight("manual", TRUE)
    \/ LoadKeywords("manual")
    \/ WriteLog("manual")
    \/ TrendsStart("manual")
    \/ TrendsSelect("manual")
    \/ TrendsFind("manual")
    \/ TrendsWrite("manual")
    \/ SleepDone("manual")
    \/ \E k \in KeywordIds : CallAlone("direct", k)
    \/ \E r \in {"manual", "direct"} :
          \/ CollectByKeyword(r)
          \/ \E o \in OverlapOutcomes : SearchSettles(r, o)
          \/ SaveVideo(r, TRUE)
    \/ \E k \in KeywordIds : ToggleKeyword(k)

SpecDirect == Init /\ [][DirectNext]_vars

\* searchYouTube called with any of the options on any day: the argument
\* list it spawns yt-dlp with
ArgsInit ==
    /\ variant \in Variants
    /\ invocation \in {Called(o) : o \in SearchOptions}
    /\ decoded = NoDecoded
    /\ written = <<>>
    /\ delivered = 0
    /\ buffer = <<>>
    /\ videos = <<>>
    /\ proc = NewProc
    /\ promise = Pending
    /\ CollectStart

ArgsNext ==
    \/ Midnight
    \/ \E shift \in UtcShifts : SpawnYtDlp(shift)

SpecArgs == ArgsInit /\ [][ArgsNext]_vars

\* a line of yt-dlp has been decoded to any of the objects: its mapping
MapperInit ==
    /\ variant \in Variants
    /\ invocation = Spawned(variant, [limit |-> Number(10)], 1, 0)
    /\ decoded \in {Decoded(d) : d \in DecodedObjects}
    /\ written = <<>>
    /\ delivered = 0
    /\ buffer = <<>>
    /\ videos = <<>>
    /\ proc = NewProc
    /\ promise = Pending
    /\ CollectStart

MapperNext == MapDecoded

SpecMapper == MapperInit /\ [][MapperNext]_vars

\* the scheduler started and stopped at any time, with any expression, and
\* the run of a live task; a search finds one video or fails
RunStep(r) ==
    \/ \E ok \in BOOLEAN : Preflight(r, ok)
    \/ LoadKeywords(r)
    \/ CollectByKeyword(r)
    \/ \E o \in OverlapOutcomes : SearchSettles(r, o)
    \/ \E ok \in BOOLEAN : SaveVideo(r, ok)
    \/ SleepDone(r)
    \/ WriteLog(r)
    \/ TrendsStart(r)
    \/ TrendsSelect(r)
    \/ TrendsFind(r)
    \/ TrendsWrite(r)

SchedulerNext ==
    \/ \E schedule \in Schedules : StartScheduler(schedule)
    \/ StopScheduler
    \/ CronTick
    \/ RunStep("scheduled")

SpecScheduler == Init /\ [][SchedulerNext]_vars

\* the same, where every step of a run that can be taken is taken in the
\* end: the preflight and the search processes emit close or error, the
\* database calls return, the delay of the loop ends
SpecSchedulerFair == SpecScheduler /\ WF_vars(RunStep("scheduled"))

\* a manual trigger and, when it has completed, a scheduled one, each with
\* its notification, in a process with or without Telegram credentials
NotifyInit ==
    /\ variant = "hardened"
    /\ written = <<>>
    /\ SearchStart
    /\ TablesStart
    /\ credentials \in BOOLEAN

Completed(r) == run[r].reply # NoReply

NotifyNext ==
    \/ Trigger("manual")
    \/ Completed("manual") /\ Trigger("scheduled")
    \/ \E r \in RunIds :
          \/ \E ok \in BOOLEAN : Preflight(r, ok)
          \/ LoadKeywords(r)
          \/ CollectByKeyword(r)
          \/ \E o \in OverlapOutcomes : SearchSettles(r, o)
          \/ SaveVideo(r, TRUE)
          \/ SleepDone(r)
          \/ WriteLog(r)
          \/ TrendsStart(r)
          \/ TrendsSelect(r)
          \/ TrendsFind(r)
          \/ TrendsWrite(r)
          \/ NotifyCollectionResult(r)
          \/ TriggerCatches(r)
          \/ \E ok \in BOOLEAN : SendSettles(r, ok)
    \/ /\ run["manual"].pc = "idle"
       /\ \E k \in KeywordIds : ToggleKeyword(k)

SpecNotify == NotifyInit /\ [][NotifyNext]_vars

-----------------------------------------------------------------------------
(* Properties of the stream parser and of the search (SpecSearch) *)

\* the records of a payload fed as one chunk and flushed
OneShot(v, text) ==
    LET c == Consume(v, <<>>, <<>>, toString(text))
    IN  Flush(v, c.buffer, c.videos).videos

\* the lines of a payload: the text between delimiters, a final delimiter
\* opening no further line
LinesOf(bytes) ==
    LET ps == SplitLines(toString(bytes)) IN
    IF ps[Len(ps)] = <<>> THEN SubSeq(ps, 1, Len(ps) - 1) ELSE ps

\* an id without its non-ASCII characters, decoded or replaced
IsAscii(c) == c \notin {"E", Replacement}
AsciiOf(id) == SelectSeq(id, IsAscii)

RecordIds(vids) == [n \in 1..Len(vids) |-> AsciiOf(vids[n].id)]

RECURSIVE DecodableIds(_)
DecodableIds(lines) ==
    IF lines = <<>> THEN <<>>
    ELSE LET p == JsonParse(Head(lines)) IN
         (IF p.ok THEN <<AsciiOf(p.raw.id)>> ELSE <<>>)
             \o DecodableIds(Tail(lines))

AllLinesValid(text) ==
    \A n \in 1..Len(LinesOf(text)) : JsonParse(LinesOf(text)[n]).ok

\* C1: whatever the chunk boundaries, once the stream is flushed the records
\* are those of the same payload fed as a single chunk and flushed.
C1_ChunkSizeInvariance ==
    proc.closed => videos = OneShot(variant, written)

\* C2: a payload of N valid lines yields exactly N records, in order, once
\* the stream is flushed, with or without a final delimiter, and the flush
\* leaves the buffer empty.  (Records are compared by the ASCII part of
\* their id, so that a character damaged by toString() is no difference.)
C2_NValidLinesNRecords ==
    (proc.closed /\ AllLinesValid(written)) =>
        /\ Len(videos) = Len(LinesOf(written))
        /\ RecordIds(videos) = DecodableIds(LinesOf(written))
        /\ buffer = <<>>

\* C3: the records emitted are exactly the decodable lines, in their
\* original order, whatever the position and number of the invalid lines,
\* and the stream is not aborted (the search settles by its exit code).
\* (Records are compared as for C2.)
C3_DecodableLinesInOrder ==
    proc.closed =>
        /\ RecordIds(videos) = DecodableIds(LinesOf(written))
        /\ promise.state # "pending"

\* C4: a close with exit code 0 resolves the search with exactly the records
\* parsed after the final flush (possibly none); a close with a nonzero exit
\* code and at least one parsed record resolves it with that partial set.
\* (A search already rejected by an 'error' event stays rejected.)
C4_CloseResolves ==
    (proc.closed /\ ~proc.errored) =>
        /\ buffer = <<>>
        /\ proc.code = 0 =>
              promise = [state |-> "resolved", value |-> videos,
                         error |-> NoError]
        /\ (proc.code # 0 /\ Len(videos) >= 1) =>
              promise = [state |-> "resolved", value |-> videos,
                         error |-> NoError]

\* two records were parsed, the last one by the flush, and the process
\* exited nonzero: the search succeeded with both
C4_PartialSuccessReached ==
    /\ proc.closed
    /\ proc.code # 0
    /\ Len(videos) = 2
    /\ written[Len(written)] # LF
    /\ promise.state = "resolved"
    /\ promise.value = videos

\* C37: a search has one outcome: the first close or error event of the
\* process settles it, and no later event of the process changes the
\* settled state, the records it was resolved with or the error it was
\* rejected with.
C37_OneOutcomePerSearch ==
    [][/\ promise.state # "pending" => promise' = promise
       /\ (proc'.closed \/ proc'.errored) => promise'.state # "pending"]_vars

\* yt-dlp could not be spawned: the error event rejected the search and
\* the close event that followed, whose handler resolves with the records
\* parsed, has left it rejected with the same error
C37_CloseAfterErrorReached ==
    /\ proc.errored
    /\ proc.closed
    /\ proc.err = SpawnENOENT
    /\ videos = <<>>
    /\ promise.state = "rejected"
    /\ promise.error = [kind |-> "yt-dlp not installed", code |-> 0]

\* C5: a close with a nonzero exit code and zero parsed records never
\* resolves the search: it is rejected, with an error that carries the exit
\* code (unless an 'error' event had rejected it before).
C5_ZeroItemsNonzeroExitFails ==
    (proc.closed /\ proc.code # 0 /\ Len(videos) = 0) =>
        /\ promise.state = "rejected"
        /\ ~proc.errored =>
              promise.error = [kind |-> "yt-dlp exited with code",
                               code |-> proc.code]

\* the process wrote only undecodable output and exited with code 2
C5_FailureReached ==
    /\ proc.closed
    /\ proc.code = 2
    /\ written # <<>>
    /\ videos = <<>>
    /\ promise.state = "rejected"
    /\ promise.error.code = 2

\* C24: a search whose spawn failed is rejected, and stays so when the
\* process then closes: with the not-installed error, which is not the
\* exit-code error, when the spawn error reports ENOENT, and with the spawn
\* error itself when it reports anything else.
C24_SpawnErrorClassified ==
    proc.errored =>
        /\ promise.state = "rejected"
        /\ promise.value = <<>>
        /\ proc.err.code = "ENOENT" =>
              /\ promise.error = [kind |-> "yt-dlp not installed", code |-> 0]
              /\ promise.error # closeOutcome(1, <<>>).error
              /\ promise.error.kind # proc.err.message
        /\ proc.err.code # "ENOENT" =>
              promise.error.kind = proc.err.message

\* yt-dlp is missing: the spawn failed with ENOENT, the process closed, and
\* the search is rejected as not installed
C24_NotInstalledReached ==
    /\ proc.errored
    /\ proc.closed
    /\ proc.err = SpawnENOENT
    /\ promise.error.kind = "yt-dlp not installed"

\* the parser state after the chunks of the given sizes, cut from bytes
RECURSIVE Replay(_, _, _, _)
Replay(v, bytes, sizes, st) ==
    IF sizes = <<>> THEN st
    ELSE Replay(v, SubSeq(bytes, Head(sizes) + 1, Len(bytes)), Tail(sizes),
                Consume(v, st.buffer, st.videos,
                        toString(SubSeq(bytes, 1, Head(sizes)))))

\* the outcome determined by the stdout chunks and the close or error event
OutcomeOf(v, bytes, sizes, p) ==
    LET st  == Replay(v, bytes, sizes, [buffer |-> <<>>, videos |-> <<>>])
        fin == Flush(v, st.buffer, st.videos)
    IN  IF p.errored THEN errorOutcome(p.err)
        ELSE IF p.closed THEN closeOutcome(p.code, fin.videos)
        ELSE Pending

\* C25 (SpecStderr): whatever yt-dlp wrote to stderr and whenever, the
\* promise of the search is the outcome determined by the stdout chunks and
\* the close or error event, and the records parsed so far are those of the
\* stdout chunks.
C25_StderrNeverDecides ==
    /\ promise = OutcomeOf(variant, written, proc.chunks, proc)
    /\ videos = IF proc.closed
                THEN LET st == Replay(variant, written, proc.chunks,
                                      [buffer |-> <<>>, videos |-> <<>>])
                     IN  Flush(variant, st.buffer, st.videos).videos
                ELSE Replay(variant, written, proc.chunks,
                            [buffer |-> <<>>, videos |-> <<>>]).videos

\* yt-dlp wrote two chunks to stderr and one record to stdout, and exited
\* with a nonzero code: the search succeeded with the record
C25_StderrSeenReached ==
    /\ proc.stderr = 2
    /\ proc.closed
    /\ proc.code # 0
    /\ Len(proc.chunks) = 2
    /\ Len(videos) = 1
    /\ promise.state = "resolved"

RECURSIVE SumSizes(_)
SumSizes(sizes) == IF sizes = <<>> THEN 0 ELSE Head(sizes) + SumSizes(Tail(sizes))

\* the text the parser holds once chunk j is appended to its buffer
BufferWith(j) ==
    LET before == SubSeq(proc.chunks, 1, j - 1)
        st     == Replay(variant, written, before,
                         [buffer |-> <<>>, videos |-> <<>>])
    IN  st.buffer \o toString(SubSeq(written, SumSizes(before) + 1,
                                     SumSizes(before) + proc.chunks[j]))

\* chunk j took the buffer past the bound with no delimiter in it
DiscardedAt(j) ==
    Len(BufferWith(j)) > MAX_BUFFER_CHARS /\ IndexOfLF(BufferWith(j)) = 0

IsSuffix(s, t) ==
    Len(s) <= Len(t) /\ SubSeq(t, Len(t) - Len(s) + 1, Len(t)) = s

\* C26 (SpecOverflow): once the stream is flushed, for every chunk that
\* took the buffer past the bound with no delimiter seen, the search has
\* settled by its exit code and the records end with those of the valid
\* lines of the output that arrived after that chunk.
C26_LinesAfterDiscardEmitted ==
    proc.closed =>
        \A j \in 1..Len(proc.chunks) :
            DiscardedAt(j) =>
                /\ promise = closeOutcome(proc.code, videos)
                /\ IsSuffix(DecodableIds(LinesOf(
                                SubSeq(written,
                                       SumSizes(SubSeq(proc.chunks, 1, j)) + 1,
                                       Len(written)))),
                            RecordIds(videos))

\* C27 (SpecSearch): a chunk that leaves the hardened parser's buffer with at
\* least one delimiter in it, whatever its size, has its complete lines
\* parsed and the rest kept: nothing is discarded.
C27_DelimitedContentNeverDiscarded ==
    [][(variant = "hardened" /\ delivered' > delivered) =>
          LET b == buffer \o toString(SubSeq(written, delivered + 1, delivered'))
          IN  IndexOfLF(b) # 0 =>
                  [buffer |-> buffer', videos |-> videos'] = DrainLines(b, videos)]_vars

\* a payload with its carriage returns removed: bare line-feed endings
StripCR(bytes) == SelectSeq(bytes, LAMBDA c : c # CR)

\* the sizes of the same chunks without their carriage returns
RECURSIVE SizesWithoutCR(_, _)
SizesWithoutCR(bytes, sizes) ==
    IF sizes = <<>> THEN <<>>
    ELSE <<Len(StripCR(SubSeq(bytes, 1, Head(sizes))))>>
             \o SizesWithoutCR(SubSeq(bytes, Head(sizes) + 1, Len(bytes)),
                               Tail(sizes))

\* the records of a payload delivered in chunks of the given sizes and
\* flushed
RecordsOf(v, bytes, sizes) ==
    LET st == Replay(v, bytes, sizes, [buffer |-> <<>>, videos |-> <<>>])
    IN  Flush(v, st.buffer, st.videos).videos

\* C28 (SpecStderr): once the stream is flushed, the records of a payload
\* are those of the same payload with bare line-feed endings cut into
\* chunks at the same places, wherever the chunk boundaries fall; no id
\* ends with a carriage return.
C28_CRLFSameAsLF ==
    proc.closed =>
        /\ videos = RecordsOf(variant, StripCR(written),
                              SizesWithoutCR(written, proc.chunks))
        /\ \A n \in 1..Len(videos) :
              \A m \in 1..Len(videos[n].id) : videos[n].id[m] # CR

-----------------------------------------------------------------------------
(* Properties of collectByKeyword and collectAll (Spec) *)

Positions(rec) == 1..Len(rec.activeKeywords)

RECURSIVE SumCollected(_)
SumCollected(results) ==
    IF results = <<>> THEN 0
    ELSE Head(results).videosCollected + SumCollected(Tail(results))

AnyError(results) == \E n \in 1..Len(results) : results[n].errors # ""

\* C6: a collectByKeyword that reads its keyword as inactive spawns no
\* yt-dlp, writes no video and returns videosCollected = 0 with the inactive
\* marker; and a yt-dlp is only ever spawned by a call that read its keyword
\* as active.
C6_InactiveShortCircuit ==
    \A r \in RunIds : \A n \in Positions(run[r]) :
        /\ run[r].reads[n] = "inactive" =>
              /\ run[r].spawns[n] = 0
              /\ run[r].writes[n] = 0
              /\ Len(run[r].results) >= n
              /\ run[r].results[n] =
                    [keywordId |-> run[r].activeKeywords[n],
                     videosCollected |-> 0,
                     errors |-> "Keyword is inactive"]
        /\ run[r].spawns[n] > 0 => run[r].reads[n] = "active"
        /\ [run |-> r, idx |-> n] \in inflight => run[r].reads[n] = "active"

\* a run has completed in which a keyword, toggled off after the run loaded
\* it, was found inactive
C6_InactiveCallReached ==
    \E r \in RunIds : \E n \in Positions(run[r]) :
        /\ run[r].pc = "returned"
        /\ run[r].reads[n] = "inactive"
        /\ run[r].results[n].errors = "Keyword is inactive"

\* C7 as stated: the status of every collectAll run that returns is
\* 'success' exactly when videos were collected and no result has an error,
\* and 'partial' when a result has an error and videos were collected.
C7_StatusOfEveryRun ==
    \A r \in RunIds : run[r].pc = "returned" =>
        /\ run[r].status = "success" <=>
              (SumCollected(run[r].results) > 0 /\ ~AnyError(run[r].results))
        /\ (AnyError(run[r].results) /\ SumCollected(run[r].results) > 0) =>
              run[r].status = "partial"

\* C7, amended: the same for every run over at least one keyword, in its
\* result and in its collection log row.
C7_StatusOfRunOverKeywords ==
    \A r \in RunIds :
        (run[r].logged = 1 /\ run[r].activeKeywords # <<>>) =>
            /\ run[r].status = "success" <=>
                  (SumCollected(run[r].results) > 0 /\ ~AnyError(run[r].results))
            /\ (AnyError(run[r].results) /\ SumCollected(run[r].results) > 0) =>
                  run[r].status = "partial"
            /\ collectionLogs[run[r].logRow].status = run[r].status

\* two keywords, one collected two videos, the search of the other failed:
\* the run is 'partial' with totalVideos = 2
C7_PartialRunReached ==
    \E r \in RunIds :
        /\ run[r].pc = "returned"
        /\ Len(run[r].results) = 2
        /\ run[r].results[1].videosCollected = 2
        /\ run[r].results[2].errors = "yt-dlp exited with code"
        /\ run[r].status = "partial"
        /\ run[r].totalVideos = 2

\* C8: a run over at least one keyword that collected zero videos has the
\* status 'failed', whether or not a keyword reported an error.
C8_FailedWhenNoVideos ==
    \A r \in RunIds :
        (/\ run[r].pc = "returned"
         /\ run[r].activeKeywords # <<>>
         /\ SumCollected(run[r].results) = 0) =>
            run[r].status = "failed"

\* C9: a run never ends with a loaded keyword that did not get exactly one
\* collectByKeyword call and at most one yt-dlp, nor by an exception of one
\* keyword's collection: the failure is in the results.
C9_EveryLoadedKeywordOnce ==
    \A r \in RunIds :
        (run[r].pc \in {"returned", "thrown"} /\ run[r].activeKeywords # <<>>) =>
            /\ run[r].pc = "returned"
            /\ Len(run[r].results) = Len(run[r].activeKeywords)
            /\ \A n \in Positions(run[r]) :
                  /\ run[r].calls[n] = 1
                  /\ run[r].spawns[n] <= 1

\* C10: while the yt-dlp of the keyword at position n of a run is in flight,
\* it is the only one of that run, the results of the n - 1 keywords before
\* it are recorded in the loaded order, and the n - 1 delays are over.
C10_OneKeywordAtATime ==
    \A r \in RunIds :
        /\ Cardinality({e \in inflight : e.run = r}) <= 1
        /\ \A e \in inflight : e.run = r =>
              /\ e.idx = run[r].i
              /\ Len(run[r].results) = e.idx - 1
              /\ run[r].sleeps = e.idx - 1
              /\ \A n \in 1..(e.idx - 1) :
                    run[r].results[n].keywordId = run[r].activeKeywords[n]

\* the search of the second keyword is in flight
C10_SecondSearchReached ==
    \E r \in RunIds :
        /\ [run |-> r, idx |-> 2] \in inflight
        /\ Len(run[r].results) = 1
        /\ run[r].sleeps = 1

-----------------------------------------------------------------------------
(* Properties of the aggregation and of the stored records (SpecDay) *)

PassPcs == {"trends", "tselect", "tfind", "twrite"}

\* the positions in a videos table of the records of a keyword collected
\* on a day
RecordsOn(table, k, day) ==
    { n \in 1..Len(table) : table[n].keywordId = k /\ table[n].collectedAt = day }

RECURSIVE ViewsOver(_, _)
ViewsOver(table, S) ==
    IF S = {} THEN 0
    ELSE LET n == CHOOSE m \in S : TRUE
         IN  table[n].viewCount + ViewsOver(table, S \ {n})

\* row is the aggregate of the records S: their number, the sum of their
\* views, the integer nearest to the mean, and the first of the records
\* with the most views
IsAggregateOf(row, table, S) ==
    /\ row.videoCount = Cardinality(S)
    /\ row.totalViews = ViewsOver(table, S)
    /\ 2 * row.avgViews * Cardinality(S) - 2 * ViewsOver(table, S)
          \in -Cardinality(S)..Cardinality(S)
    /\ row.topVideoId \in S
    /\ \A m \in S :
          \/ table[m].viewCount < table[row.topVideoId].viewCount
          \/ table[m].viewCount = table[row.topVideoId].viewCount
               /\ row.topVideoId <= m

DailyRows(trs, k, day) ==
    { n \in 1..Len(trs) :
        trs[n].keywordId = k /\ trs[n].date = day /\ trs[n].period = "daily" }

Aggregated(trs, table, kws, day) ==
    \A k \in KeywordIds :
        (kws[k].exists /\ RecordsOn(table, k, day) # {}) =>
            /\ DailyRows(trs, k, day) # {}
            /\ \A n \in DailyRows(trs, k, day) :
                  IsAggregateOf(trs[n], table, RecordsOn(table, k, day))

\* C11: when an aggregation pass ends, every keyword, active or not, that
\* owns records collected on the day of the pass has a daily row of that day
\* with videoCount their number, totalViews the sum of their views, avgViews
\* the nearest integer to the mean and topVideoId the first record with the
\* most views.
C11_DailyRowIsAggregate ==
    [][\A r \in RunIds :
          (run[r].pc \in PassPcs /\ run'[r].pc = "returned") =>
              Aggregated(trends', videosTable', keywords', run[r].today)]_vars

\* the pass of the scheduled run has aggregated, for a keyword toggled off
\* after the manual run, its two records of one and two views: total 3,
\* average 2 (1.5 rounded), top the second record
C11_InactiveKeywordRowReached ==
    /\ run["scheduled"].pc = "returned"
    /\ run["scheduled"].updated = 1
    /\ Len(trends) = 1
    /\ ~keywords[trends[1].keywordId].isActive
    /\ trends[1].date = run["scheduled"].today
    /\ trends[1].videoCount = 2
    /\ trends[1].totalViews = 3
    /\ trends[1].avgViews = 2
    /\ trends[1].topVideoId = 2

\* C12: a write of an aggregation pass that finds trends already holding,
\* for the day of the pass, the aggregates of the video records as they are
\* (an earlier pass of the day, no change since) leaves trends as it is: it
\* updates in place with the same values and inserts no row.
C12_SecondPassChangesNothing ==
    [][\A r \in RunIds :
          (/\ run[r].pc = "twrite"
           /\ run'[r].pc # "twrite"
           /\ Aggregated(trends, videosTable, keywords, run[r].today)) =>
              /\ trends' = trends
              /\ run'[r].updated = run[r].updated + 1
              /\ run'[r].inserted = run[r].inserted]_vars

\* the scheduled run has ended after the manual run of the same day: its
\* pass updated a row and inserted none, and trends has one row
C12_SecondPassReached ==
    /\ run["manual"].pc = "returned"
    /\ run["scheduled"].pc = "returned"
    /\ run["manual"].today = run["scheduled"].today
    /\ run["manual"].inserted = 1
    /\ run["scheduled"].updated = 1
    /\ run["scheduled"].inserted = 0
    /\ run["scheduled"].activeKeywords # <<>>
    /\ run["scheduled"].totalVideos = 0
    /\ Len(trends) = 1

Saves(r) == run[r].pc = "saving" /\ run'[r].writes # run[r].writes

\* C14: videos holds at most one record per videoId; no step removes a
\* record or changes its videoId; the first sighting of a videoId appends
\* its record and a later sighting changes, in the existing record and in
\* no other, viewCount, title and collectedAt to those of the sighting.
\* (likeCount, set by the same clause as viewCount, is not modelled.)
C14_OneRecordPerVideoId ==
    [][/\ \A m, n \in 1..Len(videosTable') :
             videosTable'[m].videoId = videosTable'[n].videoId => m = n
       /\ Len(videosTable') >= Len(videosTable)
       /\ \A n \in 1..Len(videosTable) :
             /\ videosTable'[n].videoId = videosTable[n].videoId
             /\ videosTable'[n].id = videosTable[n].id
       /\ \A r \in RunIds : Saves(r) =>
             LET video == Head(run[r].pending)
                 old   == { n \in 1..Len(videosTable) :
                              videosTable[n].videoId = video.id }
                 hit   == { n \in 1..Len(videosTable') :
                              videosTable'[n].videoId = video.id }
             IN  /\ Len(videosTable') =
                       IF old = {} THEN Len(videosTable) + 1 ELSE Len(videosTable)
                 /\ \A n \in 1..Len(videosTable) :
                       n \notin old => videosTable'[n] = videosTable[n]
                 /\ \A n \in hit :
                       /\ videosTable'[n].viewCount = video.viewCount
                       /\ videosTable'[n].title = video.title
                       /\ videosTable'[n].collectedAt = clock
                       /\ old = {} =>
                             videosTable'[n].keywordId =
                                 run[r].activeKeywords[run[r].i]
                 /\ hit # {}]_vars

\* video b, first stored on day 1 with two views and its title, was seen
\* again on day 2 with one view and no title: its record holds the new
\* values and there are still two records
C14_SecondSightingReached ==
    /\ Len(videosTable) = 2
    /\ videosTable[1].videoId = <<"a">>
    /\ videosTable[1].collectedAt = 1
    /\ videosTable[2].videoId = <<"b">>
    /\ videosTable[2].collectedAt = 2
    /\ videosTable[2].viewCount = 1
    /\ videosTable[2].title = "Unknown Title"

\* C36: an upsert that hits an existing videoId leaves the record's
\* keywordId and the columns only the insert writes (channelName standing
\* for url, channel, duration, thumbnail and publishedAt) as they were,
\* whichever keyword the sighting was collected for, and the collection
\* counts the video: its collectedCount, or the videosCollected of the
\* result it then returns, is one more than before.
C36_ConflictKeepsOwner ==
    [][\A r \in RunIds : Saves(r) =>
          LET video == Head(run[r].pending)
              n     == RowOf(videosTable, video.id)
          IN  n # 0 =>
                /\ videosTable'[n].keywordId = videosTable[n].keywordId
                /\ videosTable'[n].channelName = videosTable[n].channelName
                /\ videosTable'[n].id = videosTable[n].id
                /\ IF Len(run'[r].results) > Len(run[r].results)
                   THEN run'[r].results[Len(run'[r].results)].videosCollected
                            = run[r].collectedCount + 1
                   ELSE run'[r].collectedCount = run[r].collectedCount + 1]_vars

\* video b, stored for keyword 1 with its channel, was returned without a
\* channel for keyword 2: the record still belongs to keyword 1 and has
\* its channel, with the views of the later sighting, and the result of
\* keyword 2 counts one video
C36_OtherKeywordSightingReached ==
    /\ Len(videosTable) = 2
    /\ videosTable[2].videoId = <<"b">>
    /\ videosTable[2].keywordId = 1
    /\ videosTable[2].channelName = "c"
    /\ videosTable[2].viewCount = 1
    /\ Len(run["manual"].results) = 2
    /\ run["manual"].results[2].keywordId = 2
    /\ run["manual"].results[2].videosCollected = 1

\* the keyword a pass is at owns a record collected on the day of the pass
\* or later
HasRecordToday(r) ==
    \E m \in 1..Len(videosTable) :
        /\ videosTable[m].keywordId = run[r].allKeywords[run[r].tk]
        /\ videosTable[m].collectedAt >= run[r].today

\* C22: trends changes only in the write step of a pass; a pass that reads
\* no record of today for a keyword goes on to the next keyword without
\* touching trends; a pass updates or inserts a row only for a keyword that
\* owns a record of today, with the key of that keyword and day; and every
\* stored row has videoCount >= 1.
C22_NoRowWithoutRecords ==
    [][/\ trends' # trends =>
             \E r \in RunIds : run[r].pc = "twrite" /\ run'[r] # run[r]
       /\ \A r \in RunIds :
             /\ (run[r].pc = "tselect" /\ run'[r] # run[r]
                                       /\ ~HasRecordToday(r)) =>
                   /\ trends' = trends
                   /\ run'[r].pc \in {"tselect", "returned"}
                   /\ run'[r].tk = run[r].tk + 1
                   /\ run'[r].updated = run[r].updated
                   /\ run'[r].inserted = run[r].inserted
             /\ (run'[r].updated + run'[r].inserted
                      # run[r].updated + run[r].inserted) =>
                   /\ HasRecordToday(r)
                   /\ \A n \in 1..Len(trends') :
                         (n > Len(trends) \/ trends'[n] # trends[n]) =>
                             /\ trends'[n].keywordId =
                                   run[r].allKeywords[run[r].tk]
                             /\ trends'[n].date = run[r].today
       /\ \A n \in 1..Len(trends') : trends'[n].videoCount >= 1]_vars

\* the scheduled run of day 2 collected nothing: its pass has ended without
\* a write, the videos of day 1 and their row of day 1 being all there is
C22_NothingTodayReached ==
    /\ run["scheduled"].pc = "returned"
    /\ run["scheduled"].today = 2
    /\ run["scheduled"].allKeywords # <<>>
    /\ run["scheduled"].updated + run["scheduled"].inserted = 0
    /\ videosTable # <<>>
    /\ Len(trends) = 1
    /\ trends[1].date = 1

-----------------------------------------------------------------------------
(* Properties of collectByKeyword and collectAll, continued (Spec) *)

\* C15: in a collectByKeyword whose search returned records, every record
\* is tried whether or not an earlier upsert failed, videosCollected is the
\* number of upserts that succeeded, and the result has no error.
C15_FailedUpsertDoesNotStopBatch ==
    \A r \in RunIds : \A n \in Positions(run[r]) :
        (run[r].searched[n] = "resolved" /\ Len(run[r].results) >= n) =>
            /\ run[r].attempts[n] = run[r].found[n]
            /\ run[r].results[n].videosCollected = run[r].writes[n]
            /\ run[r].results[n].errors = ""
            /\ run[r].results[n].keywordId = run[r].activeKeywords[n]

\* of two records returned for the first keyword the upsert of the first
\* failed and the second was stored: videosCollected = 1, no error
C15_OneOfTwoSavedReached ==
    \E r \in RunIds :
        /\ Len(run[r].results) >= 1
        /\ run[r].found[1] = 2
        /\ run[r].attempts[1] = 2
        /\ run[r].writes[1] = 1
        /\ run[r].results[1].videosCollected = 1
        /\ run[r].results[1].errors = ""
        /\ Len(videosTable) = 1
        /\ videosTable[1].videoId = <<"b">>

\* C16: when the search of an active keyword fails, collectByKeyword does
\* not throw (an exception of the run, if any, comes from the call for
\* another keyword): the keyword's result is recorded with
\* videosCollected = 0 and the failure message as its error, and no video
\* was written or tried.
C16_SearchFailureIsAResult ==
    \A r \in RunIds : \A n \in Positions(run[r]) :
        run[r].searched[n] \notin {"none", "resolved"} =>
            /\ run[r].pc = "thrown" => run[r].i # n
            /\ run[r].reads[n] = "active"
            /\ Len(run[r].results) >= n
            /\ run[r].results[n] =
                  [keywordId |-> run[r].activeKeywords[n],
                   videosCollected |-> 0,
                   errors |-> run[r].searched[n]]
            /\ run[r].results[n].errors # ""
            /\ run[r].writes[n] = 0
            /\ run[r].attempts[n] = 0

\* the search of the first keyword failed with its exit code and the run
\* went on to the second keyword
C16_FailedSearchRecordedReached ==
    \E r \in RunIds :
        /\ run[r].pc = "call"
        /\ run[r].i = 2
        /\ run[r].searched[1] = "yt-dlp exited with code"
        /\ run[r].results[1].errors = "yt-dlp exited with code"
        /\ videosTable = <<>>

\* C17: a collectAll whose preflight reported yt-dlp unavailable has
\* thrown without loading a keyword, calling collectByKeyword or starting
\* a search, and has written no video, no collection log and no trend.
C17_NoToolNoEffect ==
    \A r \in RunIds :
        run[r].tool = "unavailable" =>
            /\ run[r].pc = "thrown"
            /\ run[r].error = "yt-dlp is not installed"
            /\ run[r].activeKeywords = <<>>
            /\ run[r].calls = <<>>
            /\ run[r].spawns = <<>>
            /\ run[r].logged = 0
            /\ run[r].inserted + run[r].updated = 0
            /\ {e \in inflight : e.run = r} = {}
            /\ videosTable = <<>>
            /\ collectionLogs = <<>>
            /\ trends = <<>>

\* the preflight failed while active keywords were there to collect
C17_PreflightFailedReached ==
    \E r \in RunIds :
        /\ run[r].tool = "unavailable"
        /\ run[r].pc = "thrown"
        /\ findActiveKeywords(keywords) # <<>>

\* C18: a collectAll that has loaded its keywords and found none active has
\* returned, in that step, status 'success' with totalKeywords = 0,
\* totalVideos = 0 and no results, and no search was started.
C18_NoActiveKeywordSuccess ==
    \A r \in RunIds :
        (run[r].tool = "available" /\ run[r].pc # "load"
                                  /\ run[r].activeKeywords = <<>>) =>
            /\ run[r].pc = "returned"
            /\ resultOf(run[r]) = [totalKeywords |-> 0, totalVideos |-> 0,
                                   results |-> <<>>, status |-> "success"]
            /\ run[r].calls = <<>>
            /\ run[r].spawns = <<>>
            /\ {e \in inflight : e.run = r} = {}

\* a run returned at once: the only keyword left was toggled off
C18_EmptyRunReached ==
    \E r \in RunIds :
        /\ run[r].pc = "returned"
        /\ run[r].activeKeywords = <<>>
        /\ \E k \in KeywordIds : keywords[k].exists /\ ~keywords[k].isActive

IsPrefix(s, t) == Len(s) <= Len(t) /\ SubSeq(t, 1, Len(s)) = s

\* C19: a collectAll that returns a result has appended exactly one row to
\* collection_logs, and no step changes or removes a row of it.
C19_OneLogRowPerRun ==
    [][/\ IsPrefix(collectionLogs, collectionLogs')
       /\ \A r \in RunIds :
             run'[r].pc = "returned" => run'[r].logged = 1]_vars

\* C20: the result of a collectAll that returns has totalVideos the sum of
\* videosCollected over its results and totalKeywords their number, and
\* the collection log row the run inserted has the keyword count, video
\* count and status of the result.
C20_TotalsAndLogAgree ==
    \A r \in RunIds :
        run[r].pc = "returned" =>
            /\ resultOf(run[r]).totalVideos = SumCollected(resultOf(run[r]).results)
            /\ resultOf(run[r]).totalKeywords = Len(resultOf(run[r]).results)
            /\ run[r].logged = 1 =>
                  collectionLogs[run[r].logRow] =
                      [keywordCount |-> resultOf(run[r]).totalKeywords,
                       videoCount   |-> resultOf(run[r]).totalVideos,
                       status       |-> resultOf(run[r]).status]

\* a run over two keywords returned with three videos collected, two for
\* one keyword and one for the other, and its log row says so
C20_LoggedRunReached ==
    \E r \in RunIds :
        /\ run[r].pc = "returned"
        /\ Len(run[r].results) = 2
        /\ run[r].results[1].videosCollected = 2
        /\ run[r].results[2].videosCollected = 1
        /\ run[r].logged = 1
        /\ collectionLogs[run[r].logRow].videoCount = 3
        /\ collectionLogs[run[r].logRow].keywordCount = 2

-----------------------------------------------------------------------------
(* Properties of collectAll and of a direct collectByKeyword (SpecDirect) *)

\* C21: a run that is in its aggregation pass is a collectAll whose loop is
\* over and whose collection log row is stored; only a step of such a pass
\* changes trends; and a step of a collectByKeyword called on its own
\* changes neither trends nor collection_logs.
C21_LogBeforeAggregateOnlyInCollectAll ==
    [][/\ \A r \in CallerIds :
             run'[r].pc \in PassPcs =>
                 /\ ~run'[r].alone
                 /\ run'[r].i = Len(run'[r].activeKeywords) + 1
                 /\ run'[r].logged = 1
                 /\ run'[r].logRow \in 1..Len(collectionLogs')
                 /\ collectionLogs'[run'[r].logRow].videoCount =
                       run'[r].totalVideos
       /\ trends' # trends =>
             \E r \in CallerIds : run[r].pc = "twrite" /\ run'[r] # run[r]
       /\ \A r \in CallerIds :
             ((run[r].alone \/ run'[r].alone) /\ run'[r] # run[r]) =>
                 /\ trends' = trends
                 /\ collectionLogs' = collectionLogs
                 /\ run'[r].logged = 0
                 /\ run'[r].inserted + run'[r].updated = 0]_vars

\* a collectByKeyword called on its own has stored a video and returned its
\* result while no collectAll had run: trends and collection_logs are empty
C21_DirectCallReached ==
    /\ run["direct"].pc = "done"
    /\ run["direct"].results # <<>>
    /\ run["direct"].results[1].videosCollected = 1
    /\ run["manual"].pc = "idle"
    /\ videosTable # <<>>
    /\ trends = <<>>
    /\ collectionLogs = <<>>

-----------------------------------------------------------------------------
(* Properties of the triggers and of the notifier (SpecNotify) *)

\* C23: no step of the notifier or of the trigger after collectAll changes
\* collection_logs or the run's result; and when the notification of a run
\* that returned was sent, failed or was skipped for lack of credentials,
\* the trigger has completed with the run's own outcome: the manual route
\* with 200 and the result of collectAll, the cron callback normally; the
\* stored status is the status of that result.
C23_NotificationFailureIsSwallowed ==
    [][\A r \in RunIds :
          /\ (run'[r].notified # run[r].notified
                  \/ run'[r].reply # run[r].reply) =>
                /\ collectionLogs' = collectionLogs
                /\ resultOf(run'[r]) = resultOf(run[r])
                /\ run'[r].pc = run[r].pc
          /\ (run'[r].pc = "returned"
                  /\ run'[r].notified \in {"sent", "failed", "unconfigured"}) =>
                /\ run'[r].reply.error = ""
                /\ run'[r].reply.outcome =
                      IF r = "manual" THEN "200" ELSE "resolved"
                /\ r = "manual" => run'[r].reply.result = resultOf(run'[r])
                /\ run'[r].logged = 1 =>
                      collectionLogs'[run'[r].logRow].status = run'[r].status
          /\ (run'[r].pc = "thrown" /\ run'[r].reply # NoReply) =>
                /\ run'[r].reply.outcome =
                      IF r = "manual" THEN "500" ELSE "resolved"
                /\ r = "manual" => run'[r].reply.error = run'[r].error]_vars

\* the delivery of the manual run's notification failed: the route answered
\* 200 with the run's result, 'partial' with one video, as it is logged
C23_FailedDeliveryReached ==
    /\ run["manual"].notified = "failed"
    /\ run["manual"].reply.outcome = "200"
    /\ run["manual"].reply.result.status = "partial"
    /\ run["manual"].reply.result.totalVideos = 1
    /\ collectionLogs[run["manual"].logRow].status = "partial"

-----------------------------------------------------------------------------
(* Properties of collectByKeyword for a keyword that is gone (Spec) *)

\* C31: a collectByKeyword whose id has no stored keyword throws "Keyword
\* not found" for that call: the step spawns no yt-dlp process and leaves
\* every table as it was.
C31_MissingKeywordThrows ==
    [][\A r \in CallerIds :
          (run[r].pc = "call" /\ run'[r] # run[r]
              /\ ~keywords[run[r].activeKeywords[run[r].i]].exists) =>
            /\ run'[r].pc = "thrown"
            /\ run'[r].error = "Keyword not found"
            /\ run'[r].calls[run[r].i] = run[r].calls[run[r].i] + 1
            /\ run'[r].spawns = run[r].spawns
            /\ run'[r].writes = run[r].writes
            /\ run'[r].results = run[r].results
            /\ inflight' = inflight
            /\ <<keywords, videosTable, trends, collectionLogs>>' =
                  <<keywords, videosTable, trends, collectionLogs>>]_vars

\* the second keyword of the run was deleted after the run had loaded it
\* and stored a video of the first: its collectByKeyword has thrown
C31_MissingKeywordReached ==
    /\ run["manual"].pc = "thrown"
    /\ run["manual"].error = "Keyword not found"
    /\ run["manual"].i = 2
    /\ run["manual"].reads[2] = "missing"
    /\ run["manual"].spawns[2] = 0
    /\ ~keywords[run["manual"].activeKeywords[2]].exists
    /\ videosTable # <<>>

\* C33: a keyword found inactive by its collectByKeyword is not an error
\* of the run: a run whose status is 'partial' has a result with an error
\* other than the inactive marker.
C33_InactiveIsNoError ==
    \A r \in RunIds :
        run[r].status = "partial" =>
            \E n \in 1..Len(run[r].results) :
                run[r].results[n].errors \notin {"", "Keyword is inactive"}

-----------------------------------------------------------------------------
(* Properties of runs started while another one runs (SpecOverlap) *)

\* collectAll has been called by the trigger and has neither returned nor
\* thrown
Executing(r) == run[r].pc \notin {"idle", "returned", "thrown"}

\* C32: at most one collectAll executes at any time, whichever triggers
\* fire while a run is in progress.
C32_AtMostOneRun ==
    Cardinality({r \in RunIds : Executing(r)}) <= 1

-----------------------------------------------------------------------------
(* Properties of the mapper (SpecMapper) *)

TypeOfField(data, k) == Get(data, k).type

\* C34: mapping a decoded object never throws and never drops the line:
\* the record is pushed, a title that is no string is the placeholder, a
\* view count that is no number is 0, a duration that is no number is
\* left out and an upload date that is no string leaves publishedAt unset.
C34_MapperNeverRaises ==
    decoded.pc # "decoded" =>
        /\ decoded.pc = "mapped"
        /\ Len(videos) = 1
        /\ TypeOfField(decoded.data, "title") # "string" =>
              videos[1].title = UnknownTitle
        /\ TypeOfField(decoded.data, "view_count") # "number" =>
              videos[1].viewCount = Number(0)
        /\ TypeOfField(decoded.data, "duration") # "number" =>
              videos[1].duration = Undefined
        /\ TypeOfField(decoded.data, "upload_date") # "string" =>
              videos[1].publishedAt = Undefined

\* the reference formats of a duration of n seconds
TwoDigits(n) == <<DigitChars[(n \div 10) + 1], DigitChars[(n % 10) + 1]>>

HoursMinutesSeconds(n) ==
    Str(numberToString(n \div 3600) \o <<":">> \o TwoDigits((n \div 60) % 60)
        \o <<":">> \o TwoDigits(n % 60))

MinutesSeconds(n) ==
    Str(numberToString(n \div 60) \o <<":">> \o TwoDigits(n % 60))

\* C35: the record a decoded object is mapped to follows the defaulting
\* rules: the placeholder title without a title; the url built from the
\* id without a canonical url; the channel, else the uploader, else the
\* placeholder; viewCount 0 unless view_count is a number; the duration
\* H:MM:SS from 3600 seconds, M:SS below, none when absent or zero;
\* publishedAt set only from an upload date of eight digits.
C35_MapperFollowsDefaults ==
    decoded.pc = "mapped" =>
        LET data == decoded.data
            info == videos[1]
        IN  /\ ~Has(data, "title") => info.title = UnknownTitle
            /\ ~Has(data, "webpage_url") => info.url = WatchUrl(data.id)
            /\ info.channel =
                  IF Has(data, "channel") THEN data.channel
                  ELSE IF Has(data, "uploader") THEN data.uploader
                  ELSE UnknownChannel
            /\ info.viewCount =
                  IF TypeOfField(data, "view_count") = "number"
                  THEN data.view_count ELSE Number(0)
            /\ (~Has(data, "duration") \/ data.duration = Number(0)) =>
                  info.duration = Undefined
            /\ (TypeOfField(data, "duration") = "number"
                    /\ data.duration.n > 0) =>
                  info.duration =
                      IF data.duration.n >= 3600
                      THEN HoursMinutesSeconds(data.duration.n)
                      ELSE MinutesSeconds(data.duration.n)
            /\ info.publishedAt # Undefined =>
                  /\ TypeOfField(data, "upload_date") = "string"
                  /\ Len(data.upload_date.chars) = 8
                  /\ \A n \in 1..8 : IsDigit(data.upload_date.chars[n])

-----------------------------------------------------------------------------
(* Properties of the scheduler (SpecScheduler, SpecSchedulerFair) *)

LiveTasks == {n \in 1..Len(scheduler.tasks) : scheduler.tasks[n].live}

\* C38: every collectAll that was started finishes in the end, by
\* returning or by throwing, provided its processes settle and its calls
\* return; and a step that starts or stops the scheduler leaves every run
\* as it is.
C38_RunFinishes ==
    /\ \A r \in RunIds : Executing(r) ~> Finished(r)
    /\ [][scheduler' # scheduler =>
            <<run, inflight, keywords, videosTable, trends, collectionLogs>>'
              = <<run, inflight, keywords, videosTable, trends,
                  collectionLogs>>]_vars

\* the scheduler was stopped while the run of its task was in progress,
\* and the run has returned with one video collected and logged
C38_StoppedRunReturnedReached ==
    /\ scheduler.busyStop
    /\ scheduler.scheduledTask = 0
    /\ LiveTasks = {}
    /\ run["scheduled"].pc = "returned"
    /\ run["scheduled"].totalVideos >= 1
    /\ run["scheduled"].logged = 1

\* C39: at most one cron task is live; getSchedulerStatus().running is
\* true exactly when a live task exists; and stopScheduler on a stopped
\* scheduler changes nothing.
C39_OneLiveTask ==
    /\ Cardinality(LiveTasks) <= 1
    /\ getSchedulerStatus(scheduler).running <=> LiveTasks # {}
    /\ ~getSchedulerStatus(scheduler).running =>
          stopScheduler(scheduler) = scheduler

\* startScheduler was called twice: the first task is stopped, the second
\* one is live and is the scheduled task
C39_RestartedReached ==
    /\ Len(scheduler.tasks) = 2
    /\ ~scheduler.tasks[1].live
    /\ scheduler.tasks[2].live
    /\ scheduler.scheduledTask = 2

\* C40: while the scheduler is running getSchedulerStatus().schedule is the
\* expression the live task was started with, and it is undefined while
\* the scheduler is stopped.
C40_StatusShowsSchedule ==
    getSchedulerStatus(scheduler).schedule =
        IF scheduler.scheduledTask # 0
        THEN String(scheduler.tasks[scheduler.scheduledTask].expr)
        ELSE Undefined

-----------------------------------------------------------------------------
(* Properties of the argument list (SpecArgs) *)

\* the positions of args that hold the date filter flag
DateFilters(args) == {n \in 1..Len(args) : args[n] = Lit("--dateafter")}

\* args has exactly one date filter and its value is the given one
OneDateFilter(args, value) ==
    /\ Cardinality(DateFilters(args)) = 1
    /\ \A n \in DateFilters(args) : n < Len(args) /\ args[n + 1] = value

Supplied(options, k) == k \in DOMAIN options /\ options[k] # Undefined

\* C29: when the options hold both a maximum age in days and a recency
\* bucket, the argument list has exactly one date filter and its value is
\* the absolute date of the day of the call less the maximum age.
C29_MaxAgeWinsOverBucket ==
    (invocation.spawned
        /\ Supplied(invocation.options, "maxAgeDays")
        /\ Supplied(invocation.options, "dateRange")) =>
      OneDateFilter(invocation.args,
                    cutoffDate(invocation.now, invocation.options.maxAgeDays,
                               invocation.shift))

\* C30: when the options hold a recency bucket and no maximum age, the
\* argument list has the bucket's relative-date token as its date filter.
C30_BucketTokenWithoutMaxAge ==
    (invocation.spawned
        /\ ~Supplied(invocation.options, "maxAgeDays")
        /\ Supplied(invocation.options, "dateRange")) =>
      OneDateFilter(invocation.args,
                    Lit(dateFilter[invocation.options.dateRange.s]))

=============================================================================
